---- MODULE Spec2Model ----
(***************************************************************************)
(* Model of the tagged-variant dispatch and validation engine of           *)
(* ruma-events: the discriminant registry (EventType), the InvalidEvent    *)
(* diagnostic, the hand-written two-stage decoders and the three           *)
(* collection-level decoders Event, RoomEvent and StateEvent.              *)
(***************************************************************************)
EXTENDS Integers, Sequences, FiniteSets, TLC

VARIABLES op, text, result, discr, etype, shown, encoded, cin, cout, cenc, batch, results, calls, accessed, field, lowered, held, reparsed, again, redecoded

vars == <<op, text, result, discr, etype, shown, encoded, cin, cout, cenc, batch, results, calls, accessed, field, lowered, held, reparsed, again, redecoded>>

(***************************************************************************)
(* Bounds of the model.                                                    *)
(***************************************************************************)
\* how many strings outside the registry are fed to the decoders
MaxExtension == 5

(***************************************************************************)
(* The discriminant registry: EventType, Display and From<&str>.           *)
(***************************************************************************)
\* EventType::Custom(s) and the unit variants, as uniform records
Unit(name) == [tag |-> name, custom |-> ""]
Custom(s) == [tag |-> "Custom", custom |-> s]
NoType == [tag |-> "", custom |-> ""]

\* impl Display for EventType: the arms of the unit variants
DisplayTable ==
    << <<"CallAnswer", "m.call.answer">>,
       <<"CallCandidates", "m.call.candidates">>,
       <<"CallHangup", "m.call.hangup">>,
       <<"CallInvite", "m.call.invite">>,
       <<"Direct", "m.direct">>,
       <<"Dummy", "m.dummy">>,
       <<"ForwardedRoomKey", "m.forwarded_room_key">>,
       <<"FullyRead", "m.fully_read">>,
       <<"KeyVerificationAccept", "m.key.verification.accept">>,
       <<"KeyVerificationCancel", "m.key.verification.cancel">>,
       <<"KeyVerificationKey", "m.key.verification.key">>,
       <<"KeyVerificationMac", "m.key.verification.mac">>,
       <<"KeyVerificationRequest", "m.key.verification.request">>,
       <<"KeyVerificationStart", "m.key.verification.start">>,
       <<"IgnoredUserList", "m.ignored_user_list">>,
       <<"Presence", "m.presence">>,
       <<"PushRules", "m.push_rules">>,
       <<"Receipt", "m.receipt">>,
       <<"RoomAliases", "m.room.aliases">>,
       <<"RoomAvatar", "m.room.avatar">>,
       <<"RoomCanonicalAlias", "m.room.canonical_alias">>,
       <<"RoomCreate", "m.room.create">>,
       <<"RoomEncrypted", "m.room.encrypted">>,
       <<"RoomEncryption", "m.room.encryption">>,
       <<"RoomGuestAccess", "m.room.guest_access">>,
       <<"RoomHistoryVisibility", "m.room.history_visibility">>,
       <<"RoomJoinRules", "m.room.join_rules">>,
       <<"RoomMember", "m.room.member">>,
       <<"RoomMessage", "m.room.message">>,
       <<"RoomMessageFeedback", "m.room.message.feedback">>,
       <<"RoomName", "m.room.name">>,
       <<"RoomPinnedEvents", "m.room.pinned_events">>,
       <<"RoomPowerLevels", "m.room.power_levels">>,
       <<"RoomRedaction", "m.room.redaction">>,
       <<"RoomServerAcl", "m.room.server_acl">>,
       <<"RoomThirdPartyInvite", "m.room.third_party_invite">>,
       <<"RoomTombstone", "m.room.tombstone">>,
       <<"RoomTopic", "m.room.topic">>,
       <<"RoomKey", "m.room_key">>,
       <<"RoomKeyRequest", "m.room_key_request">>,
       <<"Sticker", "m.sticker">>,
       <<"Tag", "m.tag">>,
       <<"Typing", "m.typing">> >>

\* impl From<&str> for EventType: the arms of the registry strings
FromTable ==
    << <<"m.call.answer", "CallAnswer">>,
       <<"m.call.candidates", "CallCandidates">>,
       <<"m.call.hangup", "CallHangup">>,
       <<"m.call.invite", "CallInvite">>,
       <<"m.direct", "Direct">>,
       <<"m.dummy", "Dummy">>,
       <<"m.forwarded_room_key", "ForwardedRoomKey">>,
       <<"m.fully_read", "FullyRead">>,
       <<"m.key.verification.accept", "KeyVerificationAccept">>,
       <<"m.key.verification.cancel", "KeyVerificationCancel">>,
       <<"m.key.verification.key", "KeyVerificationKey">>,
       <<"m.key.verification.mac", "KeyVerificationMac">>,
       <<"m.key.verification.request", "KeyVerificationRequest">>,
       <<"m.key.verification.start", "KeyVerificationStart">>,
       <<"m.ignored_user_list", "IgnoredUserList">>,
       <<"m.presence", "Presence">>,
       <<"m.push_rules", "PushRules">>,
       <<"m.receipt", "Receipt">>,
       <<"m.room.aliases", "RoomAliases">>,
       <<"m.room.avatar", "RoomAvatar">>,
       <<"m.room.canonical_alias", "RoomCanonicalAlias">>,
       <<"m.room.create", "RoomCreate">>,
       <<"m.room.encrypted", "RoomEncrypted">>,
       <<"m.room.encryption", "RoomEncryption">>,
       <<"m.room.guest_access", "RoomGuestAccess">>,
       <<"m.room.history_visibility", "RoomHistoryVisibility">>,
       <<"m.room.join_rules", "RoomJoinRules">>,
       <<"m.room.member", "RoomMember">>,
       <<"m.room.message", "RoomMessage">>,
       <<"m.room.message.feedback", "RoomMessageFeedback">>,
       <<"m.room.name", "RoomName">>,
       <<"m.room.pinned_events", "RoomPinnedEvents">>,
       <<"m.room.power_levels", "RoomPowerLevels">>,
       <<"m.room.redaction", "RoomRedaction">>,
       <<"m.room.server_acl", "RoomServerAcl">>,
       <<"m.room.third_party_invite", "RoomThirdPartyInvite">>,
       <<"m.room.tombstone", "RoomTombstone">>,
       <<"m.room.topic", "RoomTopic">>,
       <<"m.room_key", "RoomKey">>,
       <<"m.room_key_request", "RoomKeyRequest">>,
       <<"m.sticker", "Sticker">>,
       <<"m.tag", "Tag">>,
       <<"m.typing", "Typing">> >>

\* outcome of reaching a panic!() / unimplemented!() in the source
Panic == "<panic>"

\* index of the first arm of a match table whose pattern is key, 0 if none
FirstArm(table, key) ==
    IF \E i \in 1..Len(table) : table[i][1] = key
    THEN CHOOSE i \in 1..Len(table) :
            /\ table[i][1] = key
            /\ \A j \in 1..(i - 1) : table[j][1] # key
    ELSE 0

\* the strings of the registry
RegistryStrings == { FromTable[i][1] : i \in 1..Len(FromTable) }

\* EventType_from with a match that folds case
EventType_from_folding(s) ==
    LET i == FirstArm(FromTable, s)
    IN  IF i # 0 THEN Unit(FromTable[i][2])
        ELSE IF s = "M.ROOM.MESSAGE" THEN Unit("RoomMessage")
        ELSE Custom(s)

\* impl From<&str> for EventType: exact match, fall through to Custom
EventType_from(s) ==
    LET i == FirstArm(FromTable, s)
    IN  IF i # 0 THEN Unit(FromTable[i][2]) ELSE Custom(s)

\* EventType_to_string with a Custom arm that writes a fixed label
EventType_to_string_label(t) ==
    LET i == FirstArm(DisplayTable, t.tag)
    IN  IF i # 0 THEN DisplayTable[i][2]
        ELSE IF t.tag = "Custom" THEN "m.custom"
        ELSE Panic

\* impl Display for EventType (also used by impl Serialize for EventType)
EventType_to_string(t) ==
    LET i == FirstArm(DisplayTable, t.tag)
    IN  IF i # 0 THEN DisplayTable[i][2]
        ELSE IF t.tag = "Custom" THEN t.custom
        ELSE Panic

(***************************************************************************)
(* JSON texts and values.  A text either fails serde_json's parser or      *)
(* parses to a value; an object maps each key to a field value, a key      *)
(* that is not in the object being mapped to Absent.  A field other than   *)
(* `type` is abstracted to whether the type declared for it accepts it.    *)
(***************************************************************************)
Keys ==
    { "type", "content", "event_id", "origin_server_ts", "room_id", "sender",
      "state_key", "unsigned", "prev_content" }

Absent == [k |-> "absent", s |-> "", ok |-> FALSE]
Str(s) == [k |-> "string", s |-> s, ok |-> TRUE]
NonStr(kind) == [k |-> kind, s |-> "", ok |-> FALSE]
Good == [k |-> "value", s |-> "", ok |-> TRUE]
Bad == [k |-> "value", s |-> "", ok |-> FALSE]
\* a value of the right shape that breaks a rule the lowering checks
Unlowerable == [k |-> "value", s |-> "invalid", ok |-> TRUE]

NoFields == [key \in Keys |-> Absent]
NoValue == [kind |-> "none", fields |-> NoFields]
Scalar(kind) == [kind |-> kind, fields |-> NoFields]
Object(f) == [kind |-> "object", fields |-> f]

Malformed == [wf |-> FALSE, value |-> NoValue]
TextOf(v) == [wf |-> TRUE, value |-> v]

\* serde_json::Value::get: Some only for a key of an object
Value_get(v, key) == IF v.kind = "object" THEN v.fields[key] ELSE Absent

(***************************************************************************)
(* InvalidEvent and its accessors.                                         *)
(***************************************************************************)
Some(x) == [some |-> TRUE, v |-> x]
None == [some |-> FALSE, v |-> NoValue]

\* InnerInvalidEvent::Deserialization { json, error }
Deserialization(json, error) ==
    [class |-> "Deserialization", message |-> error, payload |-> json]

\* InnerInvalidEvent::Validation { raw_data, message }
Validation(raw_data, msg) ==
    [class |-> "Validation", message |-> msg, payload |-> raw_data]

NoDiag == [class |-> "", message |-> "", payload |-> NoValue]

\* InvalidEvent::message
InvalidEvent_message(d) ==
    IF d.class = "Deserialization" THEN d.message
    ELSE IF d.class = "Validation" THEN d.message
    ELSE Panic

\* InvalidEvent::raw_data
InvalidEvent_raw_data(d) == IF d.class = "Validation" THEN Some(d.payload) ELSE None

\* InvalidEvent_json that also answers for a Validation error
InvalidEvent_json_any(d) ==
    IF d.class \in {"Deserialization", "Validation"} THEN Some(d.payload) ELSE None

\* InvalidEvent::json
InvalidEvent_json(d) == IF d.class = "Deserialization" THEN Some(d.payload) ELSE None

\* messages of the errors of serde_json (a message names a field without
\* the backquotes of the original)
SyntaxError == "expected value at line 1 column 1"
MissingType == "missing field type"
InvalidValue == "invalid type or value for a field"
NotAStruct == "invalid type, expected struct"

MissingField(name) ==
    CASE name = "type" -> MissingType
      [] name = "content" -> "missing field content"
      [] name = "event_id" -> "missing field event_id"
      [] name = "origin_server_ts" -> "missing field origin_server_ts"
      [] name = "sender" -> "missing field sender"
      [] name = "state_key" -> "missing field state_key"
      [] name = "ignored_users" -> "missing field ignored_users"
      [] name = "algorithm" -> "missing field algorithm"
      [] name = "ciphertext" -> "missing field ciphertext"
      [] name = "sender_key" -> "missing field sender_key"
      [] name = "device_id" -> "missing field device_id"
      [] name = "session_id" -> "missing field session_id"
      [] OTHER -> "missing field"

(***************************************************************************)
(* Outcomes of a decode: Ok(record or union value), Err(InvalidEvent), or  *)
(* a panic.                                                                *)
(***************************************************************************)
NoEvent == [event_type |-> NoType, fields |-> NoFields]
NoOutcome == [tag |-> "", variant |-> "", event |-> NoEvent, diag |-> NoDiag]
Ok(variant, event) ==
    [tag |-> "Ok", variant |-> variant, event |-> event, diag |-> NoDiag]
Err(d) == [tag |-> "Err", variant |-> "", event |-> NoEvent, diag |-> d]
Panicked == [tag |-> "Panic", variant |-> "", event |-> NoEvent, diag |-> NoDiag]

(***************************************************************************)
(* Contents of events.  The JSON of a content is an object over            *)
(* ContentKeys; a field value has a kind k and, by kind, a boolean b, a    *)
(* list l (the strings of an array, or the keys of an object in the order  *)
(* of the text, each with the value {}) or a string s.                     *)
(***************************************************************************)
ContentKeys ==
    {"ignored_users", "allow_ip_literals", "allow", "deny", "algorithm",
     "ciphertext", "sender_key", "device_id", "session_id"}

CAbsent == [k |-> "absent", b |-> FALSE, l |-> <<>>, s |-> ""]
CBool(b) == [k |-> "bool", b |-> b, l |-> <<>>, s |-> ""]
CArray(l) == [k |-> "array", b |-> FALSE, l |-> l, s |-> ""]
CMap(l) == [k |-> "object", b |-> FALSE, l |-> l, s |-> ""]
CStr(s) == [k |-> "string", b |-> FALSE, l |-> <<>>, s |-> s]
CNumber == [k |-> "number", b |-> FALSE, l |-> <<>>, s |-> ""]

NoCFields == [key \in ContentKeys |-> CAbsent]
NoCValue == [kind |-> "none", fields |-> NoCFields]
CScalar(kind) == [kind |-> kind, fields |-> NoCFields]
CObject(fields) == [kind |-> "object", fields |-> fields]

\* a content held in memory (a Rust struct), not a JSON text
CRecord(fields) == [kind |-> "record", fields |-> fields]

CText(v) == [wf |-> TRUE, value |-> v]

NoCDiag == [class |-> "", message |-> "", payload |-> NoCValue]
NoCOutcome == [tag |-> "", variant |-> "", fields |-> NoCFields, diag |-> NoCDiag]
COk(variant, fields) ==
    [tag |-> "Ok", variant |-> variant, fields |-> fields, diag |-> NoCDiag]
CErr(d) == [tag |-> "Err", variant |-> "", fields |-> NoCFields, diag |-> d]

Range(q) == { q[i] : i \in 1..Len(q) }

\* the orders in which a HashMap with the keys S can be iterated
Orders(S) == { q \in [1..Cardinality(S) -> S] : Range(q) = S }

\* serde_json::from_str::<raw::IgnoredUserListEventContent>: the error text,
\* "" when the parse succeeds
raw_IgnoredUserListEventContent(v) ==
    IF v.kind # "object" THEN NotAStruct
    ELSE IF v.fields["ignored_users"].k = "absent" THEN MissingField("ignored_users")
    ELSE IF v.fields["ignored_users"].k # "object" THEN InvalidValue
    ELSE ""

\* a decoder that lists every entry of the text, a repeated key twice
IgnoredUserListEventContent_from_str_entries(c) ==
    IF ~c.wf THEN {CErr(Deserialization(NoCValue, SyntaxError))}
    ELSE IF raw_IgnoredUserListEventContent(c.value) # ""
    THEN {CErr(Validation(c.value, raw_IgnoredUserListEventContent(c.value)))}
    ELSE {COk("", [NoCFields EXCEPT
                     !["ignored_users"] = CArray(c.value.fields["ignored_users"].l)])}

\* impl FromStr for IgnoredUserListEventContent: the results it can give;
\* `raw.ignored_users.keys().cloned().collect()` lists the keys of the
\* HashMap in the order of its iteration
IgnoredUserListEventContent_from_str(c) ==
    IF ~c.wf THEN {CErr(Deserialization(NoCValue, SyntaxError))}
    ELSE IF raw_IgnoredUserListEventContent(c.value) # ""
    THEN {CErr(Validation(c.value, raw_IgnoredUserListEventContent(c.value)))}
    ELSE { COk("", [NoCFields EXCEPT !["ignored_users"] = CArray(q)]) :
             q \in Orders(Range(c.value.fields["ignored_users"].l)) }

\* an encoder whose map keeps only the id inserted last
IgnoredUserListEventContent_serialize_last(record) ==
    LET l == record.fields["ignored_users"].l
    IN  { CObject([NoCFields EXCEPT !["ignored_users"] =
                      CMap(IF Len(l) = 0 THEN <<>> ELSE <<l[Len(l)]>>)]) }

\* impl Serialize for IgnoredUserListEventContent: the objects it can give;
\* the list is inserted into a HashMap, which is written in the order of
\* its iteration
IgnoredUserListEventContent_serialize(record) ==
    { CObject([NoCFields EXCEPT !["ignored_users"] = CMap(q)]) :
        q \in Orders(Range(record.fields["ignored_users"].l)) }

\* a default of FALSE for allow_ip_literals
default_false == FALSE

\* fn default_true
default_true == TRUE

\* serde_json::from_str::<raw::ServerAclEventContent>: the error text, ""
\* when the parse succeeds
raw_ServerAclEventContent_error(v) ==
    IF v.kind # "object" THEN NotAStruct
    ELSE IF \/ v.fields["allow_ip_literals"].k \notin {"absent", "bool"}
            \/ v.fields["allow"].k \notin {"absent", "array"}
            \/ v.fields["deny"].k \notin {"absent", "array"}
    THEN InvalidValue
    ELSE ""

\* raw::ServerAclEventContent: the fields of the struct parsed, with
\* #[serde(default = "default_true")] and #[serde(default)]
raw_ServerAclEventContent(v) ==
    [key \in ContentKeys |->
        CASE key = "allow_ip_literals" ->
                IF v.fields[key].k = "absent" THEN CBool(default_true) ELSE v.fields[key]
          [] key \in {"allow", "deny"} ->
                IF v.fields[key].k = "absent" THEN CArray(<<>>) ELSE v.fields[key]
          [] OTHER -> CAbsent]

\* FromStr of ServerAclEventContent: the two-stage pattern, the fields of
\* the raw struct copied
ServerAclEventContent_from_str(c) ==
    IF ~c.wf THEN CErr(Deserialization(NoCValue, SyntaxError))
    ELSE IF raw_ServerAclEventContent_error(c.value) # ""
    THEN CErr(Validation(c.value, raw_ServerAclEventContent_error(c.value)))
    ELSE COk("", raw_ServerAclEventContent(c.value))

\* impl From<&str> for Algorithm
Algorithm_from(s) ==
    IF s = "m.olm.v1.curve25519-aes-sha2" THEN Unit("OlmV1Curve25519AesSha2")
    ELSE IF s = "m.megolm.v1.aes-sha2" THEN Unit("MegolmV1AesSha2")
    ELSE Custom(s)

CustomUnsupported == "Custom algorithms are not supported by EncryptedEventContent."

\* from_value::<Algorithm>: impl Deserialize for Algorithm takes a string
from_value_Algorithm(f) ==
    IF f.k = "string" THEN [error |-> "", algorithm |-> Algorithm_from(f.s)]
    ELSE [error |-> "invalid type, expected an encryption algorithm code as a string", algorithm |-> NoType]

\* the fields of the two content structs, each with the kind of JSON it takes
OlmV1Curve25519AesSha2Content ==
    << <<"algorithm", "string">>, <<"ciphertext", "ciphertext">>,
       <<"sender_key", "string">> >>

MegolmV1AesSha2Content ==
    << <<"algorithm", "string">>, <<"ciphertext", "string">>,
       <<"sender_key", "string">>, <<"device_id", "string">>,
       <<"session_id", "string">> >>

\* a from_value that does not miss an absent field
from_value_Content_lenient(v, decl) ==
    IF \E i \in 1..Len(decl) : v.fields[decl[i][1]].k \notin {"absent", decl[i][2]}
    THEN InvalidValue
    ELSE ""

\* from_value::<a content struct>(value): the error text, "" on success
from_value_Content(v, decl) ==
    IF \E i \in 1..Len(decl) : v.fields[decl[i][1]].k \notin {"absent", decl[i][2]}
    THEN InvalidValue
    ELSE IF \E i \in 1..Len(decl) : v.fields[decl[i][1]].k = "absent"
    THEN LET i == CHOOSE i \in 1..Len(decl) :
                    /\ v.fields[decl[i][1]].k = "absent"
                    /\ \A j \in 1..(i - 1) : v.fields[decl[j][1]].k # "absent"
         IN  MissingField(decl[i][1])
    ELSE ""

\* the fields a content struct keeps
CKeep(v, decl) ==
    [key \in ContentKeys |->
        IF \E i \in 1..Len(decl) : decl[i][1] = key THEN v.fields[key] ELSE CAbsent]

RawErr(msg) == [tag |-> "Err", variant |-> "", fields |-> NoCFields, message |-> msg]
RawOk(variant, fields) ==
    [tag |-> "Ok", variant |-> variant, fields |-> fields, message |-> ""]

\* one arm of the match on the algorithm: from_value at the content struct
RawVariant(v, variant, decl) ==
    IF from_value_Content(v, decl) # "" THEN RawErr(from_value_Content(v, decl))
    ELSE RawOk(variant, CKeep(v, decl))

\* a deserializer that lets a custom algorithm through as __Nonexhaustive
raw_EncryptedEventContent_deserialize_custom(v) ==
    IF v.kind # "object" \/ v.fields["algorithm"].k = "absent"
    THEN RawErr(MissingField("algorithm"))
    ELSE LET method == from_value_Algorithm(v.fields["algorithm"])
         IN  IF method.error # "" THEN RawErr(method.error)
             ELSE CASE method.algorithm.tag = "OlmV1Curve25519AesSha2" ->
                         RawVariant(v, "OlmV1Curve25519AesSha2",
                                    OlmV1Curve25519AesSha2Content)
                    [] method.algorithm.tag = "MegolmV1AesSha2" ->
                         RawVariant(v, "MegolmV1AesSha2", MegolmV1AesSha2Content)
                    [] OTHER -> RawOk("__Nonexhaustive", NoCFields)

\* impl Deserialize for raw::EncryptedEventContent
raw_EncryptedEventContent_deserialize(v) ==
    IF v.kind # "object" \/ v.fields["algorithm"].k = "absent"
    THEN RawErr(MissingField("algorithm"))
    ELSE LET method == from_value_Algorithm(v.fields["algorithm"])
         IN  IF method.error # "" THEN RawErr(method.error)
             ELSE CASE method.algorithm.tag = "OlmV1Curve25519AesSha2" ->
                         RawVariant(v, "OlmV1Curve25519AesSha2",
                                    OlmV1Curve25519AesSha2Content)
                    [] method.algorithm.tag = "MegolmV1AesSha2" ->
                         RawVariant(v, "MegolmV1AesSha2", MegolmV1AesSha2Content)
                    [] method.algorithm.tag = "Custom" -> RawErr(CustomUnsupported)
                    [] OTHER -> RawErr("Attempted to deserialize __Nonexhaustive variant.")

\* impl FromStr for EncryptedEventContent
EncryptedEventContent_from_str(c) ==
    IF ~c.wf THEN CErr(Deserialization(NoCValue, SyntaxError))
    ELSE LET raw == raw_EncryptedEventContent_deserialize(c.value)
         IN  IF raw.tag = "Err" THEN CErr(Validation(c.value, raw.message))
             ELSE IF raw.variant \in {"OlmV1Curve25519AesSha2", "MegolmV1AesSha2"}
             THEN COk(raw.variant, raw.fields)
             ELSE [tag |-> "Panic", variant |-> "", fields |-> NoCFields, diag |-> NoCDiag]

(***************************************************************************)
(* Optional fields decoded with empty_string_as_none.                      *)
(***************************************************************************)

Accepts(target, s) ==
    IF target = "String" THEN TRUE ELSE s \in {"#ruma:example.com"}

NotPresent == [tag |-> "Ok", present |-> FALSE, target |-> "", s |-> ""]
PresentValue(target, s) == [tag |-> "Ok", present |-> TRUE, target |-> target, s |-> s]
FieldError(msg) == [tag |-> "Err", present |-> FALSE, target |-> "", s |-> msg]
NotLowered == [tag |-> "", present |-> FALSE, target |-> "", s |-> ""]

\* T::deserialize(s.into_deserializer())
Target_deserialize(target, s) ==
    IF Accepts(target, s) THEN PresentValue(target, s) ELSE FieldError(InvalidValue)

\* a decorator that hands the empty string to T
empty_string_as_none_strict(target, v) ==
    IF v.k = "null" THEN NotPresent
    ELSE IF v.k # "string" THEN FieldError("invalid type, expected a string")
    ELSE Target_deserialize(target, v.s)

\* fn empty_string_as_none: Option::<String>::deserialize(de)?, then
\* `None | Some("") => Ok(None)`, `Some(s) => T::deserialize(..).map(Some)`
empty_string_as_none(target, v) ==
    IF v.k = "null" THEN NotPresent
    ELSE IF v.k # "string" THEN FieldError("invalid type, expected a string")
    ELSE IF v.s = "" THEN NotPresent
    ELSE Target_deserialize(target, v.s)

\* a field declared with #[serde(default)] and
\* #[serde(deserialize_with = "empty_string_as_none")]: the default, None,
\* when the key is absent
OptionalField_deserialize(target, v) ==
    IF v.k = "absent" THEN NotPresent ELSE empty_string_as_none(target, v)

FieldInputs ==
    [target : {"String", "RoomAliasId"},
     value : {CAbsent, [k |-> "null", b |-> FALSE, l |-> <<>>, s |-> ""], CNumber,
              CStr(""), CStr("#ruma:example.com"), CStr("The room name")}]

\* no field: the run is not one of empty_string_as_none
NoField == [target |-> "", value |-> CAbsent]

(***************************************************************************)
(* The contents given to the decoders and encoders.                        *)
(***************************************************************************)
\* the longest wire map and the longest list of ignored users
MaxUsers == 3

UserLists ==
    UNION { [1..n -> {"@carl:example.com", "@alice:example.com", "@bob:example.com"}] :
              n \in 0..MaxUsers }

IgnoredContents ==
    { CObject([NoCFields EXCEPT !["ignored_users"] = users]) :
        users \in {CAbsent, CStr("@carl:example.com")}
                  \cup { CMap(q) : q \in UserLists } }

ServerAclContents ==
    { CObject([NoCFields EXCEPT !["allow_ip_literals"] = a, !["allow"] = b,
                                !["deny"] = d]) :
        a \in {CAbsent, CBool(TRUE), CBool(FALSE), CStr("yes")},
        b \in {CAbsent, CArray(<<>>), CArray(<<"*">>), CNumber},
        d \in {CAbsent, CArray(<<>>), CArray(<<"evil.com">>)} }

EncryptedContents ==
    { CObject([NoCFields EXCEPT !["algorithm"] = a, !["ciphertext"] = c,
                                !["sender_key"] = k, !["device_id"] = d,
                                !["session_id"] = s]) :
        a \in {CAbsent, CNumber, CStr("m.olm.v1.curve25519-aes-sha2"),
               CStr("m.megolm.v1.aes-sha2"), CStr("org.example.custom")},
        c \in {CAbsent, CStr("AwgAEnACgAkLmt6qF84IK"),
               [k |-> "ciphertext", b |-> FALSE, l |-> <<"body", "type">>, s |-> ""]},
        k \in {CAbsent, CStr("caT2sAK74nbSsd4CYhSYhMSq"), CNumber},
        d \in {CAbsent, CStr("RJYKSTBOIE")},
        s \in {CAbsent, CStr("X3lUlvLELLYxeTx4yOVu6UDpasGEVO0Jbu")} }

ContentInputs ==
    {[wf |-> FALSE, value |-> NoCValue]}
    \cup { CText(v) : v \in {CScalar("string"), CScalar("array")} \cup IgnoredContents
                              \cup ServerAclContents \cup EncryptedContents }
    \cup { CText(CRecord([NoCFields EXCEPT !["ignored_users"] = CArray(q)])) :
             q \in UserLists }

\* no content: the run decodes an event or converts a discriminant
NoContent == [wf |-> FALSE, value |-> CScalar("nothing")]

\* the variants raw::EncryptedEventContent::deserialize can return
RawContentVariants ==
    { raw_EncryptedEventContent_deserialize(v).variant :
        v \in { w \in EncryptedContents :
                  raw_EncryptedEventContent_deserialize(w).tag = "Ok" } }

(***************************************************************************)
(* Structural parse of a raw struct (serde derive): decl lists the fields  *)
(* in declaration order, each with whether it is an Option and whether     *)
(* its type is serde_json::Value, which accepts any JSON.  Keys the struct *)
(* does not declare are ignored.  The result is the error text, "" when    *)
(* the parse succeeds.                                                     *)
(***************************************************************************)
Declared(decl) == { decl[i][1] : i \in 1..Len(decl) }

RawParseError(v, decl) ==
    IF v.kind # "object" THEN NotAStruct
    ELSE IF \E i \in 1..Len(decl) :
                /\ v.fields[decl[i][1]].k # "absent"
                /\ ~v.fields[decl[i][1]].ok
                /\ ~decl[i][3]
    THEN InvalidValue
    ELSE IF \E i \in 1..Len(decl) : ~decl[i][2] /\ v.fields[decl[i][1]].k = "absent"
    THEN LET i == CHOOSE i \in 1..Len(decl) :
                    /\ ~decl[i][2] /\ v.fields[decl[i][1]].k = "absent"
                    /\ \A j \in 1..(i - 1) :
                          decl[j][2] \/ v.fields[decl[j][1]].k # "absent"
         IN  MissingField(decl[i][1])
    ELSE ""

\* the fields a parsed struct keeps: the declared ones
Keep(v, decl) ==
    [key \in Keys |-> IF key \in Declared(decl) THEN v.fields[key] ELSE Absent]

\* TwoStage with the two error classes exchanged in the inner match
TwoStage_misclassed(txt, decl, event_type) ==
    IF txt.wf /\ RawParseError(txt.value, decl) = ""
    THEN Ok("", [event_type |-> event_type, fields |-> Keep(txt.value, decl)])
    ELSE IF txt.wf
    THEN Err(Deserialization(NoValue, RawParseError(txt.value, decl)))
    ELSE Err(Validation(NoValue, SyntaxError))

\* the two-stage pattern of the hand-written from_str functions: parse the
\* text as the raw struct; on failure parse it as a Value to tell a
\* Validation error (valid JSON) from a Deserialization error
TwoStage(txt, decl, event_type) ==
    IF txt.wf /\ RawParseError(txt.value, decl) = ""
    THEN Ok("", [event_type |-> event_type, fields |-> Keep(txt.value, decl)])
    ELSE IF txt.wf
    THEN Err(Validation(txt.value, RawParseError(txt.value, decl)))
    ELSE Err(Deserialization(NoValue, SyntaxError))

\* raw::EncryptedEvent
raw_EncryptedEvent ==
    << <<"content", FALSE, FALSE>>, <<"event_id", FALSE, FALSE>>,
       <<"origin_server_ts", FALSE, FALSE>>, <<"room_id", TRUE, FALSE>>,
       <<"sender", FALSE, FALSE>>, <<"unsigned", TRUE, TRUE>> >>

\* impl FromStr for EncryptedEvent
\* the content of the raw struct is one of the variants the deserializer
\* of raw::EncryptedEventContent returns; the match on it panics on
\* __Nonexhaustive
EncryptedEvent_from_str(txt) ==
    LET r == TwoStage(txt, raw_EncryptedEvent, Unit("RoomEncrypted"))
    IN  IF r.tag = "Ok" /\ "__Nonexhaustive" \in RawContentVariants
        THEN Panicked
        ELSE r

\* raw::IgnoredUserListEvent
raw_IgnoredUserListEvent == << <<"content", FALSE, FALSE>> >>

\* impl FromStr for IgnoredUserListEvent
IgnoredUserListEvent_from_str(txt) ==
    TwoStage(txt, raw_IgnoredUserListEvent, Unit("IgnoredUserList"))

raw_Room ==
    << <<"content", FALSE, FALSE>>, <<"event_id", FALSE, FALSE>>,
       <<"origin_server_ts", FALSE, FALSE>>, <<"room_id", TRUE, FALSE>>,
       <<"sender", FALSE, FALSE>>, <<"unsigned", TRUE, TRUE>> >>

RawOfKind(kind) ==
    CASE kind = "Basic" -> << <<"content", FALSE, FALSE>> >>
      [] kind = "Room" -> raw_Room
      [] kind = "State" ->
            << <<"content", FALSE, FALSE>>, <<"event_id", FALSE, FALSE>>,
               <<"origin_server_ts", FALSE, FALSE>>, <<"prev_content", TRUE, FALSE>>,
               <<"room_id", TRUE, FALSE>>, <<"unsigned", TRUE, TRUE>>,
               <<"sender", FALSE, FALSE>>, <<"state_key", FALSE, FALSE>> >>

\* FromStr of CustomEvent, CustomRoomEvent, CustomStateEvent: the content
\* is a serde_json::Value and the record keeps the `type` string
CustomKind_from_str(txt, kind) ==
    TwoStage(txt,
             << <<"type", FALSE, FALSE>> >> \o
                [i \in 1..Len(RawOfKind(kind)) |->
                    IF RawOfKind(kind)[i][1] = "content"
                    THEN <<"content", FALSE, TRUE>>
                    ELSE RawOfKind(kind)[i]],
             Custom(Value_get(txt.value, "type").s))

(***************************************************************************)
(* EventResult<T>: the raw value is parsed as T::Raw (decl), then lowered  *)
(* by try_into.                                                            *)
(***************************************************************************)
ValidationFailed == "validation failed"

\* T::Raw::try_into(): the message of the failure, "" when it succeeds
TryIntoError(raw) ==
    IF raw.fields["content"] = Unlowerable THEN ValidationFailed ELSE ""

\* inner_deserialize_True handing back the JSON value instead of the raw
\* struct when the lowering fails
inner_deserialize_True_carrying_json(value, decl, name) ==
    IF RawParseError(value, decl) # ""
    THEN Err(Deserialization(value, RawParseError(value, decl)))
    ELSE IF TryIntoError(Object(Keep(value, decl))) # ""
    THEN Err(Validation(value, TryIntoError(Object(Keep(value, decl)))))
    ELSE Ok("", [event_type |-> Unit(name), fields |-> Keep(value, decl)])

\* impl EventResultDeserialize for (EventResult<T>, True)
inner_deserialize_True(value, decl, name) ==
    IF RawParseError(value, decl) # ""
    THEN Err(Deserialization(value, RawParseError(value, decl)))
    ELSE IF TryIntoError(Object(Keep(value, decl))) # ""
    THEN Err(Validation(Object(Keep(value, decl)),
                        TryIntoError(Object(Keep(value, decl)))))
    ELSE Ok("", [event_type |-> Unit(name), fields |-> Keep(value, decl)])

\* impl EventResultDeserialize for (EventResult<T>, False)
inner_deserialize_False(value, decl, name) ==
    IF RawParseError(value, decl) = ""
    THEN Ok("", [event_type |-> Unit(name), fields |-> Keep(value, decl)])
    ELSE Err(Deserialization(value, RawParseError(value, decl)))

\* the error of the deserializer itself: no EventResult is produced
SerdeError == [tag |-> "SerdeErr", variant |-> "", event |-> NoEvent, diag |-> NoDiag]

\* a deserializer that fails as a whole when the raw struct does not parse
EventResult_deserialize_failing(txt, needs_validation, decl, name) ==
    IF ~txt.wf \/ RawParseError(txt.value, decl) # "" THEN SerdeError
    ELSE IF needs_validation
    THEN inner_deserialize_True(txt.value, decl, name)
    ELSE inner_deserialize_False(txt.value, decl, name)

\* impl Deserialize for EventResult<T>
EventResult_deserialize(txt, needs_validation, decl, name) ==
    IF ~txt.wf THEN SerdeError
    ELSE IF needs_validation
    THEN inner_deserialize_True(txt.value, decl, name)
    ELSE inner_deserialize_False(txt.value, decl, name)

(***************************************************************************)
(* The collections Event, RoomEvent and StateEvent.                        *)
(***************************************************************************)
\* impl FromStr for Event: the arms `EventType::X => match json.parse()`
\* with the variant each wraps its record in
EventArms ==
    << <<"CallAnswer", "CallAnswer">>,
       <<"CallCandidates", "CallCandidates">>,
       <<"CallHangup", "CallHangup">>,
       <<"CallInvite", "CallInvite">>,
       <<"Direct", "Direct">>,
       <<"Dummy", "Dummy">>,
       <<"ForwardedRoomKey", "ForwardedRoomKey">>,
       <<"FullyRead", "FullyRead">>,
       <<"KeyVerificationAccept", "KeyVerificationAccept">>,
       <<"KeyVerificationCancel", "KeyVerificationCancel">>,
       <<"KeyVerificationKey", "KeyVerificationKey">>,
       <<"KeyVerificationMac", "KeyVerificationMac">>,
       <<"KeyVerificationRequest", "KeyVerificationRequest">>,
       <<"KeyVerificationStart", "KeyVerificationStart">>,
       <<"IgnoredUserList", "IgnoredUserList">>,
       <<"Presence", "Presence">>,
       <<"PushRules", "PushRules">>,
       <<"Receipt", "Receipt">>,
       <<"RoomAliases", "RoomAliases">>,
       <<"RoomAvatar", "RoomAvatar">>,
       <<"RoomCanonicalAlias", "RoomCanonicalAlias">>,
       <<"RoomCreate", "RoomCreate">>,
       <<"RoomEncrypted", "RoomEncrypted">>,
       <<"RoomEncryption", "RoomEncryption">>,
       <<"RoomGuestAccess", "RoomGuestAccess">>,
       <<"RoomHistoryVisibility", "RoomHistoryVisibility">>,
       <<"RoomJoinRules", "RoomJoinRules">>,
       <<"RoomMember", "RoomMember">>,
       <<"RoomMessage", "RoomMessage">>,
       <<"RoomMessageFeedback", "RoomMessageFeedback">>,
       <<"RoomName", "RoomName">>,
       <<"RoomPinnedEvents", "RoomPinnedEvents">>,
       <<"RoomPowerLevels", "RoomPowerLevels">>,
       <<"RoomRedaction", "RoomRedaction">>,
       <<"RoomServerAcl", "RoomServerAcl">>,
       <<"RoomThirdPartyInvite", "RoomThirdPartyInvite">>,
       <<"RoomTombstone", "RoomTombstone">>,
       <<"RoomTopic", "RoomTopic">>,
       <<"RoomKey", "RoomKey">>,
       <<"RoomKeyRequest", "RoomKeyRequest">>,
       <<"Sticker", "Sticker">>,
       <<"Tag", "Tag">>,
       <<"Typing", "Typing">> >>

\* impl FromStr for RoomEvent: the same arms
RoomEventArms ==
    << <<"CallAnswer", "CallAnswer">>,
       <<"CallCandidates", "CallCandidates">>,
       <<"CallHangup", "CallHangup">>,
       <<"CallInvite", "CallInvite">>,
       <<"RoomAliases", "RoomAliases">>,
       <<"RoomAvatar", "RoomAvatar">>,
       <<"RoomCanonicalAlias", "RoomCanonicalAlias">>,
       <<"RoomCreate", "RoomCreate">>,
       <<"RoomEncrypted", "RoomEncrypted">>,
       <<"RoomEncryption", "RoomEncryption">>,
       <<"RoomGuestAccess", "RoomGuestAccess">>,
       <<"RoomHistoryVisibility", "RoomHistoryVisibility">>,
       <<"RoomJoinRules", "RoomJoinRules">>,
       <<"RoomMember", "RoomMember">>,
       <<"RoomMessage", "RoomMessage">>,
       <<"RoomMessageFeedback", "RoomMessageFeedback">>,
       <<"RoomName", "RoomName">>,
       <<"RoomPinnedEvents", "RoomPinnedEvents">>,
       <<"RoomPowerLevels", "RoomPowerLevels">>,
       <<"RoomRedaction", "RoomRedaction">>,
       <<"RoomServerAcl", "RoomServerAcl">>,
       <<"RoomThirdPartyInvite", "RoomThirdPartyInvite">>,
       <<"RoomTombstone", "RoomTombstone">>,
       <<"RoomTopic", "RoomTopic">>,
       <<"Sticker", "Sticker">> >>

\* the arm of RoomEvent::from_str that answers "not a room event"
RoomEventRejected ==
    { "Direct", "Dummy", "ForwardedRoomKey", "FullyRead",
      "KeyVerificationAccept", "KeyVerificationCancel", "KeyVerificationKey", "KeyVerificationMac",
      "KeyVerificationRequest", "KeyVerificationStart", "IgnoredUserList", "Presence",
      "PushRules", "Receipt", "RoomKey", "RoomKeyRequest",
      "Tag", "Typing" }

\* StateEventArms with the arm of m.room.tombstone wrapping in RoomTopic
StateEventArms_swapped ==
    << <<"RoomAliases", "RoomAliases">>,
       <<"RoomAvatar", "RoomAvatar">>,
       <<"RoomCanonicalAlias", "RoomCanonicalAlias">>,
       <<"RoomCreate", "RoomCreate">>,
       <<"RoomEncryption", "RoomEncryption">>,
       <<"RoomGuestAccess", "RoomGuestAccess">>,
       <<"RoomHistoryVisibility", "RoomHistoryVisibility">>,
       <<"RoomJoinRules", "RoomJoinRules">>,
       <<"RoomMember", "RoomMember">>,
       <<"RoomName", "RoomName">>,
       <<"RoomPinnedEvents", "RoomPinnedEvents">>,
       <<"RoomPowerLevels", "RoomPowerLevels">>,
       <<"RoomServerAcl", "RoomServerAcl">>,
       <<"RoomThirdPartyInvite", "RoomThirdPartyInvite">>,
       <<"RoomTombstone", "RoomTopic">>,
       <<"RoomTopic", "RoomTopic">> >>

\* impl FromStr for StateEvent: the same arms
StateEventArms ==
    << <<"RoomAliases", "RoomAliases">>,
       <<"RoomAvatar", "RoomAvatar">>,
       <<"RoomCanonicalAlias", "RoomCanonicalAlias">>,
       <<"RoomCreate", "RoomCreate">>,
       <<"RoomEncryption", "RoomEncryption">>,
       <<"RoomGuestAccess", "RoomGuestAccess">>,
       <<"RoomHistoryVisibility", "RoomHistoryVisibility">>,
       <<"RoomJoinRules", "RoomJoinRules">>,
       <<"RoomMember", "RoomMember">>,
       <<"RoomName", "RoomName">>,
       <<"RoomPinnedEvents", "RoomPinnedEvents">>,
       <<"RoomPowerLevels", "RoomPowerLevels">>,
       <<"RoomServerAcl", "RoomServerAcl">>,
       <<"RoomThirdPartyInvite", "RoomThirdPartyInvite">>,
       <<"RoomTombstone", "RoomTombstone">>,
       <<"RoomTopic", "RoomTopic">> >>

\* the arm of StateEvent::from_str that answers "not a state event"
StateEventRejected ==
    { "CallAnswer", "CallCandidates", "CallHangup", "CallInvite",
      "Direct", "Dummy", "ForwardedRoomKey", "FullyRead",
      "KeyVerificationAccept", "KeyVerificationCancel", "KeyVerificationKey", "KeyVerificationMac",
      "KeyVerificationRequest", "KeyVerificationStart", "IgnoredUserList", "Presence",
      "PushRules", "Receipt", "RoomEncrypted", "RoomMessage",
      "RoomMessageFeedback", "RoomRedaction", "RoomKey", "RoomKeyRequest",
      "Sticker", "Tag", "Typing" }

\* the capability level of the record type wrapped by a variant: the most
\* specific collection that has a variant for it
KindOf(name) ==
    IF FirstArm(StateEventArms, name) # 0 THEN "State"
    ELSE IF FirstArm(RoomEventArms, name) # 0 THEN "Room"
    ELSE "Basic"

\* json.parse() at the type of the payload of variant `name`
Concrete_from_str(txt, name) ==
    CASE name = "RoomEncrypted" -> EncryptedEvent_from_str(txt)
      [] name = "IgnoredUserList" -> IgnoredUserListEvent_from_str(txt)
      [] name = "Custom" -> CustomKind_from_str(txt, "Basic")
      [] name = "CustomRoom" -> CustomKind_from_str(txt, "Room")
      [] name = "CustomState" -> CustomKind_from_str(txt, "State")
      [] OTHER -> TwoStage(txt, RawOfKind(KindOf(name)), Unit(name))

\* the conversion `?` applies to the error of serde_json::from_str
InvalidEvent_from_serde_error(error) == Deserialization(NoValue, error)

\* from_value::<EventType>: impl Deserialize for EventType accepts a string
from_value_EventType(tv) ==
    IF tv.k = "string"
    THEN [ok |-> TRUE, value |-> EventType_from(tv.s), error |-> ""]
    ELSE [ok |-> FALSE, value |-> NoType, error |-> "invalid type, expected a Matrix event type as a string"]

\* Arm answering the error of the record decoder with the other class
Arm_reclassing(txt, value, variant) ==
    LET r == Concrete_from_str(txt, variant)
    IN  IF r.tag = "Ok" THEN Ok(variant, r.event)
        ELSE Err(Deserialization(value, InvalidEvent_message(r.diag)))

\* Arm turning the error of the record decoder into an error without value
Arm_dropping_value(txt, value, variant) ==
    LET r == Concrete_from_str(txt, variant)
    IN  IF r.tag = "Ok" THEN Ok(variant, r.event)
        ELSE Err(Deserialization(NoValue, InvalidEvent_message(r.diag)))

\* one arm `match json.parse() { Ok(event) => Ok(Variant(event)),
\* Err(error) => Err(Validation { json: value, message: error.to_string() }) }`
Arm(txt, value, variant) ==
    LET r == Concrete_from_str(txt, variant)
    IN  IF r.tag = "Ok" THEN Ok(variant, r.event)
        ELSE Err(Validation(value, InvalidEvent_message(r.diag)))

\* Prelude reporting a missing `type` as a Deserialization error
Prelude_wrong_class(txt) ==
    IF ~txt.wf THEN Err(InvalidEvent_from_serde_error(SyntaxError))
    ELSE IF Value_get(txt.value, "type").k = "absent"
    THEN Err(Deserialization(txt.value, MissingType))
    ELSE IF ~from_value_EventType(Value_get(txt.value, "type")).ok
    THEN Err(Validation(txt.value,
                        from_value_EventType(Value_get(txt.value, "type")).error))
    ELSE NoOutcome

\* Prelude carrying the `type` value instead of the whole value when
\* `type` is no string
Prelude_carrying_type(txt) ==
    IF ~txt.wf THEN Err(InvalidEvent_from_serde_error(SyntaxError))
    ELSE IF Value_get(txt.value, "type").k = "absent"
    THEN Err(Validation(txt.value, MissingType))
    ELSE IF ~from_value_EventType(Value_get(txt.value, "type")).ok
    THEN Err(Validation(Scalar(Value_get(txt.value, "type").k),
                        from_value_EventType(Value_get(txt.value, "type")).error))
    ELSE NoOutcome

\* the prelude shared by the three from_str functions: parse the text, get
\* `type`, resolve it; the outcome is NoOutcome when the prelude returns
\* nothing and the match on event_type runs
Prelude(txt) ==
    IF ~txt.wf THEN Err(InvalidEvent_from_serde_error(SyntaxError))
    ELSE IF Value_get(txt.value, "type").k = "absent"
    THEN Err(Validation(txt.value, MissingType))
    ELSE IF ~from_value_EventType(Value_get(txt.value, "type")).ok
    THEN Err(Validation(txt.value,
                        from_value_EventType(Value_get(txt.value, "type")).error))
    ELSE NoOutcome

ResolvedType(txt) == from_value_EventType(Value_get(txt.value, "type")).value

\* Event_custom_variant with `||` between the three field tests
Event_custom_variant_any(value) ==
    IF Value_get(value, "state_key").k # "absent" THEN "CustomState"
    ELSE IF \/ Value_get(value, "event_id").k # "absent"
            \/ Value_get(value, "room_id").k # "absent"
            \/ Value_get(value, "sender").k # "absent"
    THEN "CustomRoom"
    ELSE "Custom"

\* Event::from_str, the arm EventType::Custom(_): the catch-all chosen
Event_custom_variant(value) ==
    IF Value_get(value, "state_key").k # "absent" THEN "CustomState"
    ELSE IF /\ Value_get(value, "event_id").k # "absent"
            /\ Value_get(value, "room_id").k # "absent"
            /\ Value_get(value, "sender").k # "absent"
    THEN "CustomRoom"
    ELSE "Custom"

\* RoomEvent_custom_variant with the three-way test of Event::from_str
RoomEvent_custom_variant_three_way(value) ==
    IF Value_get(value, "state_key").k # "absent" THEN "CustomState"
    ELSE IF /\ Value_get(value, "event_id").k # "absent"
            /\ Value_get(value, "room_id").k # "absent"
            /\ Value_get(value, "sender").k # "absent"
    THEN "CustomRoom"
    ELSE "Custom"

\* RoomEvent::from_str, the arm EventType::Custom(_): the catch-all chosen
RoomEvent_custom_variant(value) ==
    IF Value_get(value, "state_key").k # "absent" THEN "CustomState"
    ELSE "CustomRoom"

\* StateEvent::from_str, the arm EventType::Custom(_): the catch-all chosen
StateEvent_custom_variant(value) == "CustomState"

\* impl FromStr for Event
Event_from_str(txt) ==
    IF Prelude(txt) # NoOutcome THEN Prelude(txt)
    ELSE LET value == txt.value
             event_type == ResolvedType(txt)
             i == FirstArm(EventArms, event_type.tag)
         IN  IF i # 0 THEN Arm(txt, value, EventArms[i][2])
             ELSE IF event_type.tag = "Custom"
             THEN Arm(txt, value, Event_custom_variant(value))
             ELSE Panicked

\* RoomEvent_from_str sending a type of the wrong level to the catch-all
RoomEvent_from_str_lenient(txt) ==
    IF Prelude(txt) # NoOutcome THEN Prelude(txt)
    ELSE LET value == txt.value
             event_type == ResolvedType(txt)
             i == FirstArm(RoomEventArms, event_type.tag)
         IN  IF i # 0 THEN Arm(txt, value, RoomEventArms[i][2])
             ELSE Arm(txt, value, RoomEvent_custom_variant(value))

\* impl FromStr for RoomEvent
RoomEvent_from_str(txt) ==
    IF Prelude(txt) # NoOutcome THEN Prelude(txt)
    ELSE LET value == txt.value
             event_type == ResolvedType(txt)
             i == FirstArm(RoomEventArms, event_type.tag)
         IN  IF i # 0 THEN Arm(txt, value, RoomEventArms[i][2])
             ELSE IF event_type.tag = "Custom"
             THEN Arm(txt, value, RoomEvent_custom_variant(value))
             ELSE IF event_type.tag \in RoomEventRejected
             THEN Err(Validation(value, "not a room event"))
             ELSE Panicked

\* impl FromStr for StateEvent
StateEvent_from_str(txt) ==
    IF Prelude(txt) # NoOutcome THEN Prelude(txt)
    ELSE LET value == txt.value
             event_type == ResolvedType(txt)
             i == FirstArm(StateEventArms, event_type.tag)
         IN  IF i # 0 THEN Arm(txt, value, StateEventArms[i][2])
             ELSE IF event_type.tag = "Custom"
             THEN Arm(txt, value, StateEvent_custom_variant(value))
             ELSE IF event_type.tag \in StateEventRejected
             THEN Err(Validation(value, "not a state event"))
             ELSE Panicked

(***************************************************************************)
(* The accessors of the union values RoomEvent and StateEvent.             *)
(***************************************************************************)

\* the methods of the traits Event, RoomEvent and StateEvent a level has
Accessors(level) ==
    {"content"} \cup {"event_type", "event_id", "origin_server_ts", "room_id", "sender", "unsigned"}
    \cup IF level = "StateEvent" THEN {"prev_content", "state_key"} ELSE {}

AllAccessors == Accessors("StateEvent")

\* what a call of an accessor gives: the value returned (an EventType for
\* event_type(), a field otherwise) or a panic
Returned(event_type, value) ==
    [tag |-> "returned", event_type |-> event_type, value |-> value]
AccessPanicked == [tag |-> "panic", event_type |-> NoType, value |-> Absent]
NoAccess == [name \in AllAccessors |-> [tag |-> "", event_type |-> NoType, value |-> Absent]]

\* the accessor of a record (impl_room_event!, impl_state_event!): the field
Record_accessor(name, event) ==
    IF name = "event_type" THEN Returned(event.event_type, Absent)
    ELSE Returned(NoType, event.fields[name])

\* the arms `RoomEvent::X(e) => e.event_type()`, and the same of the other
\* accessors, in the order of the source
RoomEventVariants ==
    << "CallAnswer", "CallCandidates", "CallHangup", "CallInvite",
       "RoomAliases", "RoomAvatar", "RoomCanonicalAlias", "RoomCreate",
       "RoomEncrypted", "RoomEncryption", "RoomGuestAccess",
       "RoomHistoryVisibility", "RoomJoinRules", "RoomMember",
       "RoomMessage", "RoomMessageFeedback", "RoomName",
       "RoomPinnedEvents", "RoomPowerLevels", "RoomRedaction",
       "RoomServerAcl", "RoomThirdPartyInvite", "RoomTombstone",
       "RoomTopic", "Sticker", "CustomRoom", "CustomState" >>

StateEventVariants ==
    << "RoomAliases", "RoomAvatar", "RoomCanonicalAlias", "RoomCreate",
       "RoomEncryption", "RoomGuestAccess", "RoomHistoryVisibility",
       "RoomJoinRules", "RoomMember", "RoomName", "RoomPinnedEvents",
       "RoomPowerLevels", "RoomServerAcl", "RoomThirdPartyInvite",
       "RoomTombstone", "RoomTopic", "CustomState" >>

\* an accessor whose room_id() arms call e.unsigned()
Union_accessor_miswired(level, name, variant, event) ==
    IF name \in {"content", "prev_content"} THEN AccessPanicked
    ELSE IF name = "room_id" THEN Record_accessor("unsigned", event)
    ELSE Record_accessor(name, event)

\* an accessor whose content() hands out the content of the record
Union_accessor_with_content(level, name, variant, event) ==
    IF name = "prev_content" THEN AccessPanicked
    ELSE Record_accessor(name, event)

\* impl Event / RoomEvent / StateEvent for RoomEvent and for StateEvent:
\* content() and prev_content() are unimplemented!(), every other method
\* is a match with one arm `X(e) => e.method()` per variant
Union_accessor(level, name, variant, event) ==
    LET arms == IF level = "RoomEvent" THEN RoomEventVariants
                ELSE StateEventVariants
    IN  IF name \in {"content", "prev_content"} THEN AccessPanicked
        ELSE IF \E i \in 1..Len(arms) : arms[i] = variant
        THEN Record_accessor(name, event)
        ELSE AccessPanicked

(***************************************************************************)
(* Encoders.                                                               *)
(***************************************************************************)
\* a serialized struct: the listed fields of the record, `type` being the
\* Display form of event_type(); an Option field that is None is skipped
\* when listed in skip_none
Serialized(event, names, skip_none) ==
    Object([key \in Keys |->
        IF key \notin names THEN Absent
        ELSE IF key = "type" THEN Str(EventType_to_string(event.event_type))
        ELSE IF key \in skip_none /\ event.fields[key].k = "absent" THEN Absent
        ELSE IF event.fields[key].k = "absent" THEN NonStr("null")
        ELSE event.fields[key]])

\* an encoder of EncryptedEvent that writes every field, null when absent
EncryptedEvent_serialize_nulls(event) ==
    Serialized(event,
               {"content", "event_id", "origin_server_ts", "room_id", "sender",
                "type", "unsigned"},
               {})

\* impl Serialize for EncryptedEvent
EncryptedEvent_serialize(event) ==
    Serialized(event,
               {"content", "event_id", "origin_server_ts", "room_id", "sender",
                "type", "unsigned"},
               {"room_id", "unsigned"})

\* impl Serialize for IgnoredUserListEvent
IgnoredUserListEvent_serialize(event) ==
    Serialized(event, {"content", "type"}, {})

\* impl Serialize for ServerAclEvent
ServerAclEvent_serialize(event) ==
    Serialized(event, {"content", "type"}, {})

\* Serialize of a record generated by ruma_event!
Generated_serialize(event, kind) ==
    Serialized(event, Declared(RawOfKind(kind)) \cup {"type"},
               {"room_id", "unsigned", "prev_content"})

\* the struct a variant of Event / RoomEvent / StateEvent wraps, by the way
\* it is encoded: `RoomEncrypted(EncryptedEvent)`, `Custom(CustomEvent)`, ...
PayloadOf(variant) ==
    CASE variant = "RoomEncrypted" -> "EncryptedEvent"
      [] variant = "IgnoredUserList" -> "IgnoredUserListEvent"
      [] variant = "RoomServerAcl" -> "ServerAclEvent"
      [] variant = "Custom" -> "CustomEvent"
      [] variant = "CustomRoom" -> "CustomRoomEvent"
      [] variant = "CustomState" -> "CustomStateEvent"
      [] OTHER -> KindOf(variant)

\* event.serialize(serializer) of a record of struct `payload`
Record_serialize(payload, event) ==
    CASE payload = "EncryptedEvent" -> EncryptedEvent_serialize(event)
      [] payload = "IgnoredUserListEvent" -> IgnoredUserListEvent_serialize(event)
      [] payload = "ServerAclEvent" -> ServerAclEvent_serialize(event)
      [] payload = "CustomEvent" -> Generated_serialize(event, "Basic")
      [] payload = "CustomRoomEvent" -> Generated_serialize(event, "Room")
      [] payload = "CustomStateEvent" -> Generated_serialize(event, "State")
      [] OTHER -> Generated_serialize(event, payload)

\* a union encoder with a field layout of its own: the fields of a room event
Union_serialize_own_layout(variant, event) == Generated_serialize(event, "Room")

\* impl Serialize for Event / RoomEvent / StateEvent: every arm is
\* `Variant(ref event) => event.serialize(serializer)`
Union_serialize(variant, event) ==
    CASE variant = "RoomEncrypted" -> EncryptedEvent_serialize(event)
      [] variant = "IgnoredUserList" -> IgnoredUserListEvent_serialize(event)
      [] variant = "RoomServerAcl" -> ServerAclEvent_serialize(event)
      [] variant = "Custom" -> Generated_serialize(event, "Basic")
      [] variant = "CustomRoom" -> Generated_serialize(event, "Room")
      [] variant = "CustomState" -> Generated_serialize(event, "State")
      [] OTHER -> Generated_serialize(event, KindOf(variant))

(***************************************************************************)
(* Inputs.                                                                 *)
(***************************************************************************)
\* strings that are not in the registry: a namespaced extension type and
\* near misses of registry strings
ExtensionStrings ==
    << "io.example.custom", "M.ROOM.MESSAGE", " m.dummy", "m.dummy ",
       "m.room.message.feedback.x", "", "m.room" >>

Extensions ==
    { ExtensionStrings[i] :
        i \in { j \in 1..Len(ExtensionStrings) : j <= MaxExtension } }

Strings == RegistryStrings \cup Extensions

\* JSON kinds of a `type` value that is not a string
NonStringKinds == {"number", "null", "bool", "array", "object"}

ObjectFields(ty, content, event_id, ts, room_id, sender, state_key) ==
    [key \in Keys |->
        CASE key = "type" -> ty
          [] key = "content" -> content
          [] key = "event_id" -> event_id
          [] key = "origin_server_ts" -> ts
          [] key = "room_id" -> room_id
          [] key = "sender" -> sender
          [] key = "state_key" -> state_key
          [] OTHER -> Absent]

Objects ==
    { Object([ObjectFields(ty, c, e, ts, r, s, k) EXCEPT !["unsigned"] = u]) :
        ty \in {Absent} \cup { NonStr(kind) : kind \in NonStringKinds }
                        \cup { Str(x) : x \in Strings },
        c \in {Absent, Good, Bad, Unlowerable}, e \in {Absent, Good},
        ts \in {Absent, Good}, r \in {Absent, Good}, s \in {Absent, Good, Bad},
        k \in {Absent, Good}, u \in {Absent, Good} }

Texts ==
    {Malformed}
    \cup { TextOf(v) : v \in Objects }
    \cup { TextOf(Scalar(kind)) : kind \in NonStringKinds \cup {"string"} }

\* no text: the run converts a discriminant string instead
NoText == [wf |-> FALSE, value |-> Scalar("nothing")]

(***************************************************************************)
(* Calls in flight: each thread runs one call on an input of its own, in   *)
(* steps (parse the text, resolve `type`, run the arm, encode the result); *)
(* the steps of the threads interleave.  What a call holds between its     *)
(* steps are the locals of the function: value, event_type and the result. *)
(***************************************************************************)
Threads == {1, 2}

Call(entry, input) ==
    [pc |-> "start", entry |-> entry, input |-> input, value |-> NoValue,
     event_type |-> NoType, outcome |-> NoOutcome, encoded |-> NoValue]

\* no calls in flight: the run is one of a single call
NoCalls == [t \in Threads |-> [Call("", NoText) EXCEPT !.pc = "idle"]]

\* a `value` that is one buffer for all the threads: the value parsed last
\* by another thread, if any
SharedValue(c, t) ==
    IF \E u \in Threads \ {t} : c[u].value # NoValue
    THEN c[CHOOSE u \in Threads \ {t} : c[u].value # NoValue].value
    ELSE c[t].value

\* `value`, a local of the call: `let value: Value = serde_json::from_str(json)`
\* / `let json = serde_json::Value::deserialize(deserializer)?`
LocalValue(c, t) == c[t].value

\* serde_json::from_str(json) / Value::deserialize: the call after the step
CallParsed(c, t) ==
    IF c[t].input.wf
    THEN [c[t] EXCEPT !.pc = "parsed", !.value = c[t].input.value]
    ELSE [c[t] EXCEPT !.pc = "done",
                      !.outcome = IF c[t].entry = "Event"
                                  THEN Err(InvalidEvent_from_serde_error(SyntaxError))
                                  ELSE SerdeError]

\* Event::from_str: value.get("type") and from_value::<EventType>;
\* EventResult::deserialize: inner_deserialize(json) of a room event that
\* needs validation
CallResolved(c, t) ==
    IF c[t].entry = "EventResult"
    THEN [c[t] EXCEPT !.pc = "done",
                      !.outcome = inner_deserialize_True(LocalValue(c, t),
                                                         raw_Room, "Room")]
    ELSE IF Prelude(TextOf(LocalValue(c, t))) # NoOutcome
    THEN [c[t] EXCEPT !.pc = "done",
                      !.outcome = Prelude(TextOf(LocalValue(c, t)))]
    ELSE [c[t] EXCEPT !.pc = "typed",
                      !.event_type = ResolvedType(TextOf(LocalValue(c, t)))]

\* Event::from_str: `match event_type { .. }`
CallDispatched(c, t) ==
    LET i == FirstArm(EventArms, c[t].event_type.tag)
    IN  [c[t] EXCEPT
            !.pc = "done",
            !.outcome =
                IF i # 0 THEN Arm(c[t].input, LocalValue(c, t), EventArms[i][2])
                ELSE IF c[t].event_type.tag = "Custom"
                THEN Arm(c[t].input, LocalValue(c, t),
                         Event_custom_variant(LocalValue(c, t)))
                ELSE Panicked]

(***************************************************************************)
(* Batches: a JSON array decoded as Vec<EventResult<T>>.                   *)
(***************************************************************************)
\* the longest batch
MaxBatch == 2

Batches ==
    {[wf |-> FALSE, elems |-> <<>>]}
    \cup { [wf |-> TRUE, elems |-> q] :
             q \in UNION { [1..n ->
                              { Object(ObjectFields(Str("m.room.message"), c, Good, Good,
                                                    Absent, Good, Absent)) :
                                  c \in {Good, Absent, Unlowerable} }
                              \cup {Scalar("string")}] :
                            n \in 0..MaxBatch } }

\* no batch: the run decodes one text, a content or a discriminant
NoBatch == [wf |-> FALSE, elems |-> <<Scalar("nothing")>>]

NoOutcomes == [tag |-> "", list |-> <<>>]

\* the visitor of Vec<T>: `while let Some(value) = seq.next_element()?`
\* pushes the elements in order; the error of an element is the error of
\* the whole
RECURSIVE VecVisitor(_, _, _, _, _)
VecVisitor(elems, acc, needs_validation, decl, name) ==
    IF elems = <<>> THEN [tag |-> "Ok", list |-> acc]
    ELSE LET r == EventResult_deserialize(TextOf(Head(elems)), needs_validation,
                                          decl, name)
         IN  IF r.tag = "SerdeErr" THEN [tag |-> "SerdeErr", list |-> <<>>]
             ELSE VecVisitor(Tail(elems), Append(acc, r), needs_validation,
                             decl, name)

\* serde_json::from_str::<Vec<EventResult<T>>>(text)
Vec_EventResult_deserialize(b, needs_validation, decl, name) ==
    IF ~b.wf THEN [tag |-> "SerdeErr", list |-> <<>>]
    ELSE VecVisitor(b.elems, <<>>, needs_validation, decl, name)


(***************************************************************************)
(* The state machine: an input is given, and the entry points are applied  *)
(* to it.                                                                  *)
(***************************************************************************)
SingleInit ==
    /\ op = "init"
    /\ \/ text \in Texts /\ discr = "" /\ cin = NoContent /\ batch = NoBatch
       \/ text = NoText /\ discr \in Strings /\ cin = NoContent /\ batch = NoBatch
       \/ text = NoText /\ discr = "" /\ cin \in ContentInputs /\ batch = NoBatch
       \/ text = NoText /\ discr = "" /\ cin = NoContent /\ batch \in Batches
    /\ field = NoField
    /\ lowered = NotLowered
    /\ held = NoType
    /\ reparsed = NoType
    /\ again = NoCOutcome
    /\ redecoded = NoCOutcome
    /\ calls = NoCalls
    /\ accessed = NoAccess
    /\ result = NoOutcome
    /\ etype = NoType
    /\ shown = ""
    /\ encoded = NoValue
    /\ cout = NoCOutcome
    /\ cenc = NoCValue
    /\ results = NoOutcomes

\* the calls in flight are given their inputs
CallsInit ==
    /\ op = "calls"
    /\ text = NoText /\ discr = "" /\ cin = NoContent /\ batch = NoBatch
    /\ result = NoOutcome
    /\ etype = NoType
    /\ shown = ""
    /\ encoded = NoValue
    /\ cout = NoCOutcome
    /\ cenc = NoCValue
    /\ results = NoOutcomes
    /\ accessed = NoAccess
    /\ field = NoField
    /\ lowered = NotLowered
    /\ held = NoType
    /\ reparsed = NoType
    /\ again = NoCOutcome
    /\ redecoded = NoCOutcome
    /\ calls \in [Threads -> { Call(entry, input) :
          entry \in {"Event", "EventResult"},
          input \in
            { Malformed,
              TextOf(Scalar("string")),
              TextOf(Object(ObjectFields(Absent, Good, Good, Good, Good, Good, Absent))),
              TextOf(Object(ObjectFields(Str("m.room.message"), Good, Good, Good, Good,
                                         Good, Absent))),
              TextOf(Object(ObjectFields(Str("m.dummy"), Bad, Absent, Absent, Absent,
                                         Absent, Absent))),
              TextOf(Object(ObjectFields(Str("io.example.custom"), Unlowerable, Good,
                                         Good, Absent, Good, Good))) } }]

\* a field decoded with empty_string_as_none is given its value
FieldInit ==
    /\ op = "field"
    /\ text = NoText /\ discr = "" /\ cin = NoContent /\ batch = NoBatch
    /\ result = NoOutcome
    /\ etype = NoType
    /\ shown = ""
    /\ encoded = NoValue
    /\ cout = NoCOutcome
    /\ cenc = NoCValue
    /\ results = NoOutcomes
    /\ accessed = NoAccess
    /\ calls = NoCalls
    /\ field \in FieldInputs
    /\ lowered = NotLowered
    /\ held = NoType
    /\ reparsed = NoType
    /\ again = NoCOutcome
    /\ redecoded = NoCOutcome

\* a caller holds an EventType built in memory
TypeInit ==
    /\ op = "type"
    /\ text = NoText /\ discr = "" /\ cin = NoContent /\ batch = NoBatch
    /\ result = NoOutcome
    /\ etype = NoType
    /\ shown = ""
    /\ encoded = NoValue
    /\ cout = NoCOutcome
    /\ cenc = NoCValue
    /\ results = NoOutcomes
    /\ accessed = NoAccess
    /\ calls = NoCalls
    /\ field = NoField
    /\ lowered = NotLowered
    /\ held \in { Unit(DisplayTable[i][1]) : i \in 1..Len(DisplayTable) }
                \cup {Unit("__Nonexhaustive")}
                \cup { Custom(s) : s \in Strings }
    /\ reparsed = NoType
    /\ again = NoCOutcome
    /\ redecoded = NoCOutcome

Init == SingleInit \/ CallsInit \/ FieldInit \/ TypeInit

\* EventType::from(discr), then to_string() / serialize
Convert ==
    /\ text = NoText /\ cin = NoContent /\ batch = NoBatch /\ calls = NoCalls
    /\ field = NoField
    /\ held = NoType
    /\ op' = "EventType"
    /\ etype' = EventType_from(discr)
    /\ shown' = EventType_to_string(EventType_from(discr))
    /\ UNCHANGED <<text, result, discr, encoded, cin, cout, cenc, batch, results, calls, accessed, field, lowered, held, reparsed, again, redecoded>>

Decode(name, outcome) ==
    /\ text # NoText
    /\ op' = name
    /\ result' = outcome
    /\ encoded' = NoValue
    /\ accessed' = NoAccess
    /\ UNCHANGED <<text, discr, etype, shown, cin, cout, cenc, batch, results, calls, field, lowered, held, reparsed, again, redecoded>>

\* text.parse::<Event>()
DecodeEvent == Decode("Event", Event_from_str(text))

\* text.parse::<RoomEvent>()
DecodeRoomEvent == Decode("RoomEvent", RoomEvent_from_str(text))

\* text.parse::<StateEvent>()
DecodeStateEvent == Decode("StateEvent", StateEvent_from_str(text))

\* text.parse::<EncryptedEvent>()
DecodeEncryptedEvent == Decode("EncryptedEvent", EncryptedEvent_from_str(text))

\* text.parse::<IgnoredUserListEvent>()
DecodeIgnoredUserListEvent ==
    Decode("IgnoredUserListEvent", IgnoredUserListEvent_from_str(text))

\* serde_json::from_str::<EventResult<T>>(text), T a record of some kind
\* that needs validation or not
DeserializeEventResult ==
    \E needs_validation \in BOOLEAN, kind \in {"Basic", "Room", "State"} :
        Decode(IF needs_validation THEN "EventResultTrue" ELSE "EventResultFalse",
               EventResult_deserialize(text, needs_validation, RawOfKind(kind), kind))

Collections == {"Event", "RoomEvent", "StateEvent"}

\* serde_json::to_value of the union value a collection decode returned
Encode ==
    /\ op \in Collections
    /\ result.tag = "Ok"
    /\ encoded = NoValue
    /\ encoded' = Union_serialize(result.variant, result.event)
    /\ UNCHANGED <<op, text, result, discr, etype, shown, cin, cout, cenc, batch, results, calls, accessed, field, lowered, held, reparsed, again, redecoded>>

\* a content decoder applied to the text held: one of `results`
ParseContent(name, outcomes) ==
    /\ cin # NoContent /\ cin.value.kind # "record"
    /\ op' = name
    /\ cout' \in outcomes
    /\ cenc' = NoCValue
    /\ again' = NoCOutcome
    /\ UNCHANGED <<text, result, discr, etype, shown, encoded, cin, batch, results, calls, accessed, field, lowered, held, reparsed, redecoded>>

\* text.parse::<IgnoredUserListEventContent>()
ParseIgnoredUserListEventContent ==
    ParseContent("IgnoredUserListEventContent",
                 IgnoredUserListEventContent_from_str(cin))

\* text.parse::<ServerAclEventContent>()
ParseServerAclEventContent ==
    ParseContent("ServerAclEventContent", {ServerAclEventContent_from_str(cin)})

\* text.parse::<EncryptedEventContent>()
ParseEncryptedEventContent ==
    ParseContent("EncryptedEventContent", {EncryptedEventContent_from_str(cin)})

\* the IgnoredUserListEventContent at hand: the one given in memory or the
\* one the decoder returned
IgnoredUserListAtHand ==
    IF cin.value.kind = "record" THEN cin.value ELSE CRecord(cout.fields)

\* serde_json::to_value(&content) of an IgnoredUserListEventContent
SerializeIgnoredUserListEventContent ==
    /\ cin # NoContent
    /\ \/ cin.value.kind = "record"
       \/ op = "IgnoredUserListEventContent" /\ cout.tag = "Ok"
    /\ cenc = NoCValue
    /\ op' = "IgnoredUserListEventContent"
    /\ cenc' \in IgnoredUserListEventContent_serialize(IgnoredUserListAtHand)
    /\ UNCHANGED <<text, result, discr, etype, shown, encoded, cin, cout, batch, results, calls, accessed, field, lowered, held, reparsed, again, redecoded>>

\* serde_json::from_str::<Vec<EventResult<T>>>(text), T a record of some
\* kind that needs validation or not
DeserializeBatch ==
    /\ batch # NoBatch
    /\ \E needs_validation \in BOOLEAN, kind \in {"Basic", "Room", "State"} :
          /\ op' = IF needs_validation THEN "VecEventResultTrue"
                   ELSE "VecEventResultFalse"
          /\ results' = Vec_EventResult_deserialize(batch, needs_validation,
                                                     RawOfKind(kind), kind)
    /\ UNCHANGED <<text, result, discr, etype, shown, encoded, cin, cout, cenc, batch, calls, accessed, field, lowered, held, reparsed, again, redecoded>>

\* a step of the call of thread t
CallStep(t, pc, after) ==
    /\ calls[t].pc = pc
    /\ calls' = [calls EXCEPT ![t] = after]
    /\ UNCHANGED <<op, text, result, discr, etype, shown, encoded, cin, cout, cenc, batch, results, accessed, field, lowered, held, reparsed, again, redecoded>>

\* every method of the traits called on the union value a RoomEvent or
\* StateEvent decode returned
Access ==
    /\ op \in {"RoomEvent", "StateEvent"}
    /\ result.tag = "Ok"
    /\ accessed = NoAccess
    /\ accessed' = [name \in AllAccessors |->
                       IF name \in Accessors(op)
                       THEN Union_accessor(op, name, result.variant, result.event)
                       ELSE [tag |-> "", event_type |-> NoType, value |-> Absent]]
    /\ UNCHANGED <<op, text, result, discr, etype, shown, encoded, cin, cout, cenc, batch, results, calls, field, lowered, held, reparsed, again, redecoded>>

\* the struct field is deserialized from the value of its key
DeserializeOptionalField ==
    /\ field # NoField
    /\ op' = "empty_string_as_none"
    /\ lowered' = OptionalField_deserialize(field.target, field.value)
    /\ UNCHANGED <<text, result, discr, etype, shown, encoded, cin, cout, cenc, batch, results, calls, accessed, field, held, reparsed, again, redecoded>>

\* the held EventType is written with to_string and the string is read
\* back with EventType::from; nothing is read back after a panic
Reparse ==
    /\ held # NoType
    /\ op' = "Reparse"
    /\ shown' = EventType_to_string(held)
    /\ reparsed' = IF EventType_to_string(held) = Panic
                   THEN NoType
                   ELSE EventType_from(EventType_to_string(held))
    /\ UNCHANGED <<text, result, discr, etype, encoded, cin, cout, cenc, batch, results, calls, accessed, field, lowered, held, again, redecoded>>

\* the text just decoded is decoded once more at the same entry point
ParseContentAgain ==
    /\ cin # NoContent /\ cin.value.kind # "record"
    /\ op \in {"IgnoredUserListEventContent", "ServerAclEventContent",
               "EncryptedEventContent"}
    /\ cout # NoCOutcome
    /\ cenc = NoCValue
    /\ again = NoCOutcome
    /\ again' \in
          CASE op = "IgnoredUserListEventContent" ->
                  IgnoredUserListEventContent_from_str(cin)
            [] op = "ServerAclEventContent" -> {ServerAclEventContent_from_str(cin)}
            [] op = "EncryptedEventContent" -> {EncryptedEventContent_from_str(cin)}
    /\ UNCHANGED <<op, text, result, discr, etype, shown, encoded, cin, cout, cenc, batch, results, calls, accessed, field, lowered, held, reparsed, redecoded>>

\* the object written for a content built in memory is parsed back:
\* serde_json::to_string(&content)?.parse::<IgnoredUserListEventContent>()
ParseEncodedIgnoredUserListEventContent ==
    /\ cin # NoContent /\ cin.value.kind = "record"
    /\ cenc # NoCValue
    /\ redecoded = NoCOutcome
    /\ redecoded' \in IgnoredUserListEventContent_from_str(CText(cenc))
    /\ UNCHANGED <<op, text, result, discr, etype, shown, encoded, cin, cout, cenc, batch, results, calls, accessed, field, lowered, held, reparsed, again>>

Next ==
    \/ Convert
    \/ DecodeEvent
    \/ DecodeRoomEvent
    \/ DecodeStateEvent
    \/ DecodeEncryptedEvent
    \/ DecodeIgnoredUserListEvent
    \/ DeserializeEventResult
    \/ Encode
    \/ ParseIgnoredUserListEventContent
    \/ ParseServerAclEventContent
    \/ ParseEncryptedEventContent
    \/ SerializeIgnoredUserListEventContent
    \/ DeserializeBatch
    \/ \E t \in Threads : CallStep(t, "start", CallParsed(calls, t))
    \/ \E t \in Threads : CallStep(t, "parsed", CallResolved(calls, t))
    \/ \E t \in Threads : CallStep(t, "typed", CallDispatched(calls, t))
    \/ \E t \in Threads :
          /\ calls[t].entry = "Event"
          /\ calls[t].outcome.tag = "Ok"
          /\ CallStep(t, "done",
                      [calls[t] EXCEPT
                         !.pc = "encoded",
                         !.encoded = Union_serialize(calls[t].outcome.variant,
                                                     calls[t].outcome.event)])
    \/ Access
    \/ DeserializeOptionalField
    \/ Reparse
    \/ ParseContentAgain
    \/ ParseEncodedIgnoredUserListEventContent

Spec == Init /\ [][Next]_vars

(***************************************************************************)
(* Properties.                                                             *)
(***************************************************************************)
\* the `type` value of the text given
TypeOf(txt) == Value_get(txt.value, "type")

Present(txt, key) == Value_get(txt.value, key).k # "absent"

\* the variant documented for a registry string
NameOfString(s) ==
    DisplayTable[CHOOSE i \in 1..Len(DisplayTable) : DisplayTable[i][2] = s][1]

CatchAlls == {"Custom", "CustomRoom", "CustomState"}

\* the text given has a string `type` that is in the registry / is not
KnownType(txt) ==
    txt.wf /\ TypeOf(txt).k = "string" /\ TypeOf(txt).s \in RegistryStrings

ExtensionType(txt) ==
    txt.wf /\ TypeOf(txt).k = "string" /\ TypeOf(txt).s \notin RegistryStrings

FromStrOps ==
    Collections \cup {"EncryptedEvent", "IgnoredUserListEvent"}

\* C1: for every string s, EventType::from(s) shown again is s; each of the
\* 43 registry strings gets its own unit variant, and every other string,
\* near misses of registry strings included, becomes Custom(s) verbatim.
C1_DiscriminantRoundTrip ==
    op = "EventType" =>
        /\ shown = discr
        /\ Cardinality(RegistryStrings) = 43
        /\ discr \in RegistryStrings =>
              /\ etype = Unit(NameOfString(discr))
              /\ \A other \in RegistryStrings :
                    EventType_from(other) = etype => other = discr
        /\ discr \notin RegistryStrings => etype = Custom(discr)

C1_Witness ==
    /\ op = "EventType"
    /\ discr = "M.ROOM.MESSAGE"
    /\ etype = Custom("M.ROOM.MESSAGE")
    /\ shown = "M.ROOM.MESSAGE"

\* C2: when a collection decode succeeds on a registry type, the variant is
\* the one named after that type and is no catch-all; a catch-all variant
\* is returned only for a type outside the registry.
C2_KnownTypeOwnVariant ==
    (op \in Collections /\ result.tag = "Ok") =>
        /\ TypeOf(text).k = "string"
        /\ KnownType(text) =>
              /\ result.variant = NameOfString(TypeOf(text).s)
              /\ result.variant \notin CatchAlls
        /\ result.variant \in CatchAlls => ExtensionType(text)

C2_Witness ==
    /\ op = "StateEvent"
    /\ TypeOf(text) = Str("m.room.tombstone")
    /\ result.tag = "Ok"
    /\ result.variant = "RoomTombstone"

\* C3: a registry type that does not belong to the level asked for is
\* rejected whatever the other fields are: RoomEvent answers "not a room
\* event" for every type of basic records, StateEvent answers "not a state
\* event" for every type of records that are not state records.
C3_LevelMismatchRejected ==
    /\ ( /\ op = "RoomEvent"
         /\ KnownType(text)
         /\ KindOf(NameOfString(TypeOf(text).s)) = "Basic" )
       => result = Err(Validation(text.value, "not a room event"))
    /\ ( /\ op = "StateEvent"
         /\ KnownType(text)
         /\ KindOf(NameOfString(TypeOf(text).s)) # "State" )
       => result = Err(Validation(text.value, "not a state event"))

C3_Witness ==
    /\ op = "RoomEvent"
    /\ TypeOf(text) = Str("m.direct")
    /\ Present(text, "content") /\ Present(text, "event_id")
    /\ Present(text, "sender") /\ Present(text, "state_key")
    /\ result.tag = "Err"
    /\ result.diag.message = "not a room event"

\* the catch-all Event::from_str is to choose by the presence of fields
ExpectedAtAny(txt) ==
    IF Present(txt, "state_key") THEN "CustomState"
    ELSE IF Present(txt, "event_id") /\ Present(txt, "room_id") /\ Present(txt, "sender")
    THEN "CustomRoom"
    ELSE "Custom"

\* the outcome is that of the decoder of catch-all `expected`: its record
\* in that variant, or its message
DecidedBy(expected) ==
    /\ result.tag \in {"Ok", "Err"}
    /\ result.tag = "Ok" <=> Concrete_from_str(text, expected).tag = "Ok"
    /\ result.tag = "Ok" => result.variant = expected
    /\ result.tag = "Err" =>
          result.diag.message = Concrete_from_str(text, expected).diag.message

\* C4: Event::from_str on a type outside the registry runs the state
\* catch-all decoder when state_key is present, else the room catch-all
\* decoder when event_id, room_id and sender are all present, else the
\* basic catch-all decoder.
C4_AnyLevelRouting ==
    (op = "Event" /\ ExtensionType(text)) => DecidedBy(ExpectedAtAny(text))

C4_Witness ==
    /\ op = "Event"
    /\ TypeOf(text) = Str("io.example.custom")
    /\ ~Present(text, "state_key")
    /\ Present(text, "event_id") /\ Present(text, "room_id")
    /\ Present(text, "sender")
    /\ result.tag = "Ok"
    /\ result.variant = "CustomRoom"

\* C5: RoomEvent::from_str on a type outside the registry runs the state
\* catch-all decoder when state_key is present and the room catch-all
\* decoder otherwise; StateEvent::from_str always runs the state catch-all
\* decoder; neither returns the basic catch-all.
C5_LowerLevelRouting ==
    /\ (op = "RoomEvent" /\ ExtensionType(text)) =>
          DecidedBy(IF Present(text, "state_key") THEN "CustomState"
                    ELSE "CustomRoom")
    /\ (op = "StateEvent" /\ ExtensionType(text)) => DecidedBy("CustomState")
    /\ op \in {"RoomEvent", "StateEvent"} => result.variant # "Custom"

C5_Witness ==
    /\ op = "RoomEvent"
    /\ ExtensionType(text)
    /\ ~Present(text, "state_key") /\ ~Present(text, "room_id")
    /\ result.tag = "Ok"
    /\ result.variant = "CustomRoom"

\* the namespaced strings among the extension strings
Namespaced == Extensions \cap {"io.example.custom", "m.room.message.feedback.x"}

\* the basic catch-all kept the type string and writes it back
KeepsType ==
    /\ result.tag = "Ok"
    /\ result.variant = "Custom"
    /\ result.event.event_type = Custom(TypeOf(text).s)
    /\ encoded # NoValue => encoded.fields["type"] = Str(TypeOf(text).s)

\* C6 as stated: Event::from_str on any JSON with a namespaced type outside
\* the registry succeeds into the basic catch-all, which keeps the type
\* string and writes it back.
C6_AnyJsonToBasicCatchAll ==
    (op = "Event" /\ ExtensionType(text) /\ TypeOf(text).s \in Namespaced)
        => KeepsType

\* C6: Event::from_str on a JSON object with a type outside the registry,
\* a content field, no state_key and not all of event_id, room_id and
\* sender succeeds into the basic catch-all, which keeps the type string
\* and writes it back.
C6_BasicCatchAllFidelity ==
    ( /\ op = "Event"
      /\ ExtensionType(text)
      /\ Present(text, "content")
      /\ ~Present(text, "state_key")
      /\ ~(Present(text, "event_id") /\ Present(text, "room_id")
              /\ Present(text, "sender")) )
        => KeepsType

C6_Witness ==
    /\ op = "Event"
    /\ TypeOf(text) = Str("io.example.custom")
    /\ Present(text, "event_id") /\ ~Present(text, "room_id")
    /\ result.variant = "Custom"
    /\ encoded # NoValue
    /\ encoded.fields["type"] = Str("io.example.custom")

\* C7: at every level a JSON value without a `type` key is answered with a
\* Validation error saying that `type` is missing and carrying the parsed
\* value, whatever the other fields are.
C7_MissingType ==
    (op \in Collections /\ text.wf /\ ~Present(text, "type")) =>
        result = Err(Validation(text.value, MissingType))

C7_Witness ==
    /\ op = "StateEvent"
    /\ text.wf /\ text.value.kind = "object"
    /\ ~Present(text, "type")
    /\ Present(text, "content") /\ Present(text, "state_key")
    /\ result.diag.class = "Validation"
    /\ result.diag.message = MissingType

\* C8: at every level a `type` that is present but is no string is answered
\* with a Validation error carrying the parsed value; it is never taken
\* for an extension type and no catch-all is returned.
C8_NonStringType ==
    (op \in Collections /\ text.wf /\ TypeOf(text).k \in NonStringKinds) =>
        /\ result.tag = "Err"
        /\ result.diag.class = "Validation"
        /\ result.diag.payload = text.value
        /\ result.variant \notin CatchAlls

C8_Witness ==
    /\ op = "RoomEvent"
    /\ TypeOf(text) = NonStr("null")
    /\ Present(text, "content") /\ Present(text, "state_key")
    /\ result.tag = "Err"
    /\ result.diag.class = "Validation"

\* C9: a text that is not JSON never gives a record or a union value, and
\* every from_str entry point answers it with a Deserialization error.
C9_MalformedJson ==
    (op # "init" /\ text # NoText /\ ~text.wf) =>
        /\ result.tag # "Ok"
        /\ op \in FromStrOps =>
              result.tag = "Err" /\ result.diag.class = "Deserialization"

C9_Witness ==
    /\ op = "EncryptedEvent"
    /\ text = Malformed
    /\ result.tag = "Err"
    /\ result.diag.class = "Deserialization"

Kinds == {"Basic", "Room", "State"}

\* the three results of the two phases for a record type of raw struct
\* decl: phase 1 failed, phase 1 passed and phase 2 failed, both passed
ThreeOutcomes(decl) ==
    LET e1 == RawParseError(text.value, decl)
        raw == Object(Keep(text.value, decl))
    IN  \/ /\ e1 # ""
           /\ result = Err(Deserialization(text.value, e1))
        \/ /\ e1 = "" /\ TryIntoError(raw) # ""
           /\ result = Err(Validation(raw, TryIntoError(raw)))
        \/ /\ e1 = "" /\ TryIntoError(raw) = ""
           /\ result.tag = "Ok"
           /\ result.event.fields = Keep(text.value, decl)

\* C11: for a type that needs validation, EventResult of a JSON value j is
\* a Deserialization error carrying j and the parser's error when the raw
\* parse fails, a Validation error carrying the message and the raw struct
\* when the raw parse passes and the lowering fails, and Ok only when both
\* pass; for a type that needs no validation there is no Validation error.
C11_TwoPhaseOutcomes ==
    /\ (op = "EventResultTrue" /\ text.wf) =>
          \E kind \in Kinds : ThreeOutcomes(RawOfKind(kind))
    /\ (op = "EventResultFalse" /\ text.wf) =>
          /\ result.diag.class # "Validation"
          /\ \E kind \in Kinds :
                LET e1 == RawParseError(text.value, RawOfKind(kind))
                IN  IF e1 # ""
                    THEN result = Err(Deserialization(text.value, e1))
                    ELSE result.tag = "Ok"

C11_Witness ==
    /\ op = "EventResultTrue"
    /\ Present(text, "type")
    /\ text.value.fields["content"] = Unlowerable
    /\ result.tag = "Err"
    /\ result.diag.class = "Validation"
    /\ result.diag.payload # text.value

EventResultOps == {"EventResultTrue", "EventResultFalse"}

\* C12: valid JSON that fails the structural parse of the record type is
\* answered with a Deserialization error holding the parser's error text,
\* by the EventResult path and by the hand-written from_str functions.
C12_SchemaMismatchIsSyntactic ==
    /\ ( /\ op = "EncryptedEvent" /\ text.wf
         /\ RawParseError(text.value, raw_EncryptedEvent) # "" )
       => /\ result.tag = "Err"
          /\ result.diag.class = "Deserialization"
          /\ result.diag.message = RawParseError(text.value, raw_EncryptedEvent)
    /\ ( /\ op = "IgnoredUserListEvent" /\ text.wf
         /\ RawParseError(text.value, raw_IgnoredUserListEvent) # "" )
       => /\ result.tag = "Err"
          /\ result.diag.class = "Deserialization"
          /\ result.diag.message
                = RawParseError(text.value, raw_IgnoredUserListEvent)
    /\ ( /\ op \in EventResultOps /\ text.wf /\ result.tag = "Err"
         /\ result.diag.message # ValidationFailed )
       => result.diag.class = "Deserialization"

\* C13: when a collection decode fails on a text that is JSON (no type, a
\* type that is no string, a type of another level, or a failure of the
\* record decoder chosen), the error carries the whole parsed value.
C13_FailureKeepsValue ==
    (op \in Collections /\ text.wf /\ result.tag = "Err") =>
        /\ result.diag.class \in {"Validation", "Deserialization"}
        /\ result.diag.payload = text.value

C13_Witness ==
    /\ op = "RoomEvent"
    /\ TypeOf(text) = Str("m.room.message")
    /\ text.value.fields["content"] = Bad
    /\ Present(text, "event_id") /\ Present(text, "sender")
    /\ result.tag = "Err"
    /\ result.diag.message = InvalidValue
    /\ result.diag.payload = text.value

\* the record decoded kept every key of the text: the text has no key the
\* record type does not declare
DecoderKeptAll ==
    \A key \in Keys \ {"type"} :
        Present(text, key) => result.event.fields[key] = text.value.fields[key]

\* the round trip of the records of the variants in `variants`
RoundTrip(variants) ==
    (/\ op \in Collections /\ encoded # NoValue /\ DecoderKeptAll
     /\ result.variant \in variants) =>
        encoded = text.value

Variants == { EventArms[i][2] : i \in 1..Len(EventArms) } \cup CatchAlls

\* C14: encoding the record a decode returned gives an object with the key
\* set and the values of the text decoded, for every record type (m.dummy
\* and a full m.room.server_acl state event included).
C14_RoundTrip ==
    /\ RoundTrip(Variants \ {"RoomServerAcl"})
    /\ RoundTrip({"RoomServerAcl"})

\* the keys an encoded object has
KeysOf(value) == { key \in Keys : value.fields[key].k # "absent" }

\* C15: an encoded record has no null value and no key for an absent
\* optional field; an encoded EncryptedEvent has exactly content, event_id,
\* origin_server_ts, sender and type, plus room_id exactly when the record
\* has a room_id and unsigned exactly when it has unsigned.
C15_OmissionLaw ==
    (op \in Collections /\ encoded # NoValue) =>
        /\ \A key \in Keys : encoded.fields[key] # NonStr("null")
        /\ \A key \in {"room_id", "unsigned", "prev_content"} :
              result.event.fields[key].k = "absent" => key \notin KeysOf(encoded)
        /\ result.variant = "RoomEncrypted" =>
              KeysOf(encoded) =
                  {"content", "event_id", "origin_server_ts", "sender", "type"}
                  \cup { key \in {"room_id", "unsigned"} :
                            result.event.fields[key].k # "absent" }

C15_Witness ==
    /\ op \in Collections /\ encoded # NoValue
    /\ result.variant = "RoomEncrypted"
    /\ result.event.fields["room_id"].k = "absent"
    /\ result.event.fields["unsigned"].k # "absent"
    /\ KeysOf(encoded) =
          {"content", "event_id", "origin_server_ts", "sender", "type", "unsigned"}

\* C16: encoding a union value gives exactly what the encoder of the record
\* it wraps gives, for every variant of Event, RoomEvent and StateEvent.
C16_UnionEncodesAsRecord ==
    (op \in Collections /\ encoded # NoValue) =>
        encoded = Record_serialize(PayloadOf(result.variant), result.event)

C16_Witness ==
    /\ op = "StateEvent" /\ encoded # NoValue
    /\ result.variant = "CustomState"
    /\ "state_key" \in KeysOf(encoded)
    /\ encoded = Generated_serialize(result.event, "State")

NoRepeat(q) == \A i, j \in 1..Len(q) : q[i] = q[j] => i = j

\* C17: decoding an m.ignored_user_list content gives a list with exactly
\* the keys of the wire map, each once; encoding a content gives a map with
\* exactly the ids listed, each with the value {}.
C17_IgnoredUsersLowering ==
    /\ (op = "IgnoredUserListEventContent" /\ cout.tag = "Ok") =>
          /\ cout.fields["ignored_users"].k = "array"
          /\ Range(cout.fields["ignored_users"].l) =
                Range(cin.value.fields["ignored_users"].l)
          /\ NoRepeat(cout.fields["ignored_users"].l)
    /\ cenc # NoCValue =>
          /\ cenc.kind = "object"
          /\ cenc.fields["ignored_users"].k = "object"
          /\ Range(cenc.fields["ignored_users"].l) =
                Range(IgnoredUserListAtHand.fields["ignored_users"].l)
          /\ NoRepeat(cenc.fields["ignored_users"].l)
          /\ \A key \in ContentKeys \ {"ignored_users"} : cenc.fields[key] = CAbsent

C17_Witness ==
    /\ op = "IgnoredUserListEventContent" /\ cout.tag = "Ok"
    /\ Len(cin.value.fields["ignored_users"].l) = 3
    /\ ~NoRepeat(cin.value.fields["ignored_users"].l)
    /\ Len(cout.fields["ignored_users"].l) = 2
    /\ cenc # NoCValue
    /\ Len(cenc.fields["ignored_users"].l) = 2

SupportedAlgorithms == {"m.olm.v1.curve25519-aes-sha2", "m.megolm.v1.aes-sha2"}

\* the text is an object with a supported algorithm and the fields of that
\* algorithm, each of its JSON type
MatchesAlgorithm(c) ==
    /\ c.wf /\ c.value.kind = "object"
    /\ c.value.fields["algorithm"].k = "string"
    /\ c.value.fields["algorithm"].s \in SupportedAlgorithms
    /\ c.value.fields["sender_key"].k = "string"
    /\ IF c.value.fields["algorithm"].s = "m.olm.v1.curve25519-aes-sha2"
       THEN c.value.fields["ciphertext"].k = "ciphertext"
       ELSE /\ c.value.fields["ciphertext"].k = "string"
            /\ c.value.fields["device_id"].k = "string"
            /\ c.value.fields["session_id"].k = "string"

\* C19: decoding an encrypted content gives a record only when the text has
\* an algorithm that is one of the two supported strings and the fields of
\* that algorithm; with no algorithm, a custom algorithm or a field missing
\* it fails with a diagnostic.
C19_EncryptedContentNeedsAlgorithm ==
    op = "EncryptedEventContent" =>
        /\ cout.tag = "Ok" => MatchesAlgorithm(cin)
        /\ ~MatchesAlgorithm(cin) =>
              /\ cout.tag = "Err"
              /\ cout.diag.class \in {"Deserialization", "Validation"}
              /\ cout.diag.message # ""

C19_Witness ==
    /\ op = "EncryptedEventContent"
    /\ cin = CText(CObject([NoCFields EXCEPT
                              !["algorithm"] = CStr("m.megolm.v1.aes-sha2")]))
    /\ cout.tag = "Err"
    /\ cout.diag.message = MissingField("ciphertext")

\* C20: no decode panics: EventType::from and Algorithm::from give no
\* __Nonexhaustive, the deserializer of raw::EncryptedEventContent returns
\* no __Nonexhaustive, and no panic arm is reached.
C20_NoPanic ==
    /\ result.tag # "Panic"
    /\ cout.tag # "Panic"
    /\ op = "EventType" => etype.tag # "__Nonexhaustive" /\ shown # Panic
    /\ (op \in FromStrOps /\ text.wf /\ TypeOf(text).k = "string") =>
          EventType_from(TypeOf(text).s).tag # "__Nonexhaustive"
    /\ (op = "EncryptedEventContent" /\ cin.wf) =>
          /\ raw_EncryptedEventContent_deserialize(cin.value).variant
                # "__Nonexhaustive"
          /\ cin.value.fields["algorithm"].k = "string" =>
                Algorithm_from(cin.value.fields["algorithm"].s).tag
                    # "__Nonexhaustive"
    /\ "__Nonexhaustive" \notin RawContentVariants

C20_Witness ==
    /\ op = "EncryptedEventContent"
    /\ cin.wf
    /\ cin.value.fields["algorithm"] = CStr("org.example.custom")
    /\ cout.tag = "Err"
    /\ cout.diag.message = CustomUnsupported

\* C21: deserializing an EventResult from a JSON value never fails as a
\* whole, the failure is inside the result; a batch of n values gives n
\* results in order, the outcome at i being the one of element i alone.
C21_BatchElementwise ==
    /\ (op \in EventResultOps /\ text.wf) => result.tag \in {"Ok", "Err"}
    /\ (op \in {"VecEventResultTrue", "VecEventResultFalse"} /\ batch.wf) =>
          /\ results.tag = "Ok"
          /\ Len(results.list) = Len(batch.elems)
          /\ \E kind \in Kinds :
                \A i \in 1..Len(batch.elems) :
                    /\ results.list[i].tag \in {"Ok", "Err"}
                    /\ results.list[i] =
                          EventResult_deserialize(TextOf(batch.elems[i]),
                                                  op = "VecEventResultTrue",
                                                  RawOfKind(kind), kind)

C21_Witness ==
    /\ op = "VecEventResultTrue" /\ batch.wf
    /\ Len(batch.elems) = 2
    /\ batch.elems[1] = Scalar("string")
    /\ batch.elems[2].kind = "object"
    /\ results.tag = "Ok"
    /\ results.list[1].tag = "Err"
    /\ results.list[2].tag = "Ok"

\* the outcome of a call run alone on its input
Alone(entry, input) ==
    IF entry = "Event" THEN Event_from_str(input)
    ELSE EventResult_deserialize(input, TRUE, raw_Room, "Room")

\* C22: calls share no state: in every interleaving of the steps of the
\* calls in flight, a call that has returned has the outcome it has when
\* run alone on its input, and the encoding of that outcome.
C22_CallsIndependent ==
    \A t \in Threads :
        /\ calls[t].pc \in {"done", "encoded"} =>
              calls[t].outcome = Alone(calls[t].entry, calls[t].input)
        /\ calls[t].pc = "encoded" =>
              calls[t].encoded =
                  Union_serialize(Event_from_str(calls[t].input).variant,
                                  Event_from_str(calls[t].input).event)

C22_Witness ==
    /\ calls[1].pc = "encoded"
    /\ calls[2].pc = "typed"
    /\ calls[1].entry = "Event" /\ calls[2].entry = "Event"
    /\ calls[1].input # calls[2].input
    /\ calls[2].input.value.fields["content"] = Unlowerable

\* the match tables and the catch-all chosen at each level
ArmsOf(level) ==
    CASE level = "Event" -> EventArms
      [] level = "RoomEvent" -> RoomEventArms
      [] level = "StateEvent" -> StateEventArms

CatchAllOf(level, value) ==
    CASE level = "Event" -> Event_custom_variant(value)
      [] level = "RoomEvent" -> RoomEvent_custom_variant(value)
      [] level = "StateEvent" -> StateEvent_custom_variant(value)

\* the variant whose record decoder the decode at `level` runs on txt, ""
\* when it runs none
SelectedVariant(level, txt) ==
    IF ~txt.wf \/ TypeOf(txt).k # "string" THEN ""
    ELSE LET tag == EventType_from(TypeOf(txt).s).tag
             i == FirstArm(ArmsOf(level), tag)
         IN  IF i # 0 THEN ArmsOf(level)[i][2]
             ELSE IF tag = "Custom" THEN CatchAllOf(level, txt.value)
             ELSE ""

C24_AccessorsForward ==
    (op \in {"RoomEvent", "StateEvent"} /\ accessed # NoAccess) =>
        /\ \A name \in Accessors(op) \ {"content", "prev_content"} :
              /\ accessed[name] = Record_accessor(name, result.event)
              /\ name # "event_type" =>
                    accessed[name] = Returned(NoType, text.value.fields[name])
        /\ accessed["event_type"].tag = "returned"
        /\ KnownType(text) =>
              EventType_to_string(accessed["event_type"].event_type) = TypeOf(text).s

C24_Witness ==
    /\ op = "StateEvent" /\ accessed # NoAccess
    /\ TypeOf(text) = Str("m.room.topic")
    /\ accessed["event_type"] = Returned(Unit("RoomTopic"), Absent)
    /\ accessed["room_id"] = Returned(NoType, Absent)
    /\ accessed["unsigned"] = Returned(NoType, Good)
    /\ accessed["state_key"] = Returned(NoType, Good)

\* C25: content() of every RoomEvent and StateEvent value and
\* prev_content() of every StateEvent value panic, and every other
\* accessor of the value returns.
C25_ContentAccessorsPanic ==
    (op \in {"RoomEvent", "StateEvent"} /\ accessed # NoAccess) =>
        /\ accessed["content"] = AccessPanicked
        /\ op = "StateEvent" => accessed["prev_content"] = AccessPanicked
        /\ \A name \in Accessors(op) \ {"content", "prev_content"} :
              accessed[name].tag = "returned"

C25_Witness ==
    /\ op = "RoomEvent" /\ accessed # NoAccess
    /\ result.variant = "RoomMessage"
    /\ result.event.fields["content"] = Good
    /\ accessed["content"] = AccessPanicked
    /\ accessed["sender"] = Returned(NoType, Good)

\* C26: empty_string_as_none gives "not present" for an absent key, for
\* null and for the empty string alike, and for a string s that is not
\* empty it gives T decoded from s, failing only when T rejects s.
C26_EmptyStringAsNone ==
    op = "empty_string_as_none" =>
        /\ (field.value.k \in {"absent", "null"} \/ field.value = CStr("")) =>
              lowered = NotPresent
        /\ (field.value.k = "string" /\ field.value.s # "") =>
              IF Accepts(field.target, field.value.s)
              THEN lowered = PresentValue(field.target, field.value.s)
              ELSE lowered.tag = "Err"
        /\ (field.value.k \in {"absent", "null", "string"} /\ lowered.tag = "Err") =>
              /\ field.value.s # ""
              /\ ~Accepts(field.target, field.value.s)

C26_Witness ==
    /\ op = "empty_string_as_none"
    /\ field = [target |-> "RoomAliasId", value |-> CStr("")]
    /\ lowered = NotPresent

\* C27: every EventType t other than __Nonexhaustive, a Custom built by
\* the caller from any string included, is the value EventType::from gives
\* for t.to_string().
C27_TypeRoundTrip ==
    (op = "Reparse" /\ held # Unit("__Nonexhaustive")) => reparsed = held

\* C28: the levels agree: a text StateEvent decodes into variant V decodes
\* into V as a RoomEvent, and a text RoomEvent decodes into variant V
\* decodes into V as an Event, the catch-alls of extension types included.
C28_LevelsAgree ==
    /\ (op = "StateEvent" /\ result.tag = "Ok") =>
          /\ RoomEvent_from_str(text).tag = "Ok"
          /\ RoomEvent_from_str(text).variant = result.variant
    /\ (op = "RoomEvent" /\ result.tag = "Ok") =>
          /\ Event_from_str(text).tag = "Ok"
          /\ Event_from_str(text).variant = result.variant

\* C29: decoding is deterministic: a second decode of the same text at the
\* same entry point gives the outcome of the first, the same record or the
\* same diagnostic; an m.ignored_user_list content with two or more ids
\* decodes to the same list, in the same order, both times.
C29_DecodeDeterministic ==
    again # NoCOutcome => again = cout

\* C30: for an m.ignored_user_list content r built in memory, decoding the
\* encoding of r gives a list with exactly the ids of r, each once: its
\* length is the number of distinct ids of r, and it is r's list only when
\* r's list has no repeated id.
C30_IgnoredRoundTripIsSet ==
    redecoded # NoCOutcome =>
        /\ redecoded.tag = "Ok"
        /\ redecoded.fields["ignored_users"].k = "array"
        /\ Range(redecoded.fields["ignored_users"].l) =
              Range(cin.value.fields["ignored_users"].l)
        /\ Len(redecoded.fields["ignored_users"].l) =
              Cardinality(Range(cin.value.fields["ignored_users"].l))
        /\ redecoded.fields["ignored_users"] = cin.value.fields["ignored_users"] =>
              NoRepeat(cin.value.fields["ignored_users"].l)

C30_Witness ==
    /\ redecoded # NoCOutcome
    /\ cin.value.kind = "record"
    /\ cin.value.fields["ignored_users"].l =
          <<"@carl:example.com", "@bob:example.com", "@carl:example.com">>
    /\ redecoded.fields["ignored_users"].l = <<"@bob:example.com", "@carl:example.com">>

====
